---- MODULE Spec2Model ----
(***************************************************************************)
(* SmartV2X-CP edge (RSU) risk pipeline: the warning-dissemination policy  *)
(* (edge_rsu/services/rl_dissemination.py), the collision-probability map  *)
(* (edge_rsu/services/cp_map.py) and the pairwise risk aggregator          *)
(* (edge_rsu/services/risk_aggregator.py).                                 *)
(*                                                                         *)
(* Python floats are modelled as exact rationals <<n, d>> in lowest terms  *)
(* with d > 0.  Each component has its own specification (SpecRL, SpecCP,  *)
(* SpecAgg); the variables of the other components stay at their initial   *)
(* value.                                                                  *)
(***************************************************************************)
EXTENDS Integers, Sequences, FiniteSets, TLC

VARIABLES
    \* RLDisseminator
    max_capacity,       \* self.max_capacity
    epsilon,            \* self.epsilon
    q_table,            \* self._q_table, unseen keys read as {WARN: 0, SKIP: 0}
    current_warnings,   \* self._current_warnings
    total_decisions,    \* self._total_decisions
    rl_out,             \* the last call on the policy and what it returned
    epoch_bin,          \* load bin seen by the latest decide of this epoch
    n_updates,          \* number of update calls so far
    \* CollisionProbabilityMap
    decay_rate,         \* self.decay_rate, in units of ln 2 per second
    grid,               \* self._grid
    clock,              \* time.time(), in seconds
    cp_out,             \* the last call on the map and what it returned
    cp_dta,             \* per cell: the score had each update since the last
                        \* decay_all decayed the stored score before adding
    n_map_updates,      \* number of update calls so far
    \* RiskAggregator
    distance_threshold, \* self.distance_threshold
    pair_cache,         \* self._pair_cache
    agg_out,            \* the last aggregate call and what it returned
    n_aggregates,       \* number of aggregate calls so far
    score_eval,         \* the last evaluation of the risk-score formula
    \* CollisionRiskAssessor
    ttc_high,           \* self.ttc_high
    ttc_medium,         \* self.ttc_medium
    min_dist_alert,     \* self.min_dist_alert
    ra_out,             \* the last call on the assessor and what it returned
    \* ExtendedKalmanFilter
    ekf_dt,             \* self.dt
    ekf_x,              \* self.x, the state [x, y, vx, vy, ax, ay]
    ekf_P,              \* self.P
    ekf_Q,              \* self.Q
    R_gps,              \* self.R_gps
    R_imu,              \* self.R_imu
    R_radar,            \* self.R_radar
    initialised,        \* self._initialised
    ekf_out,            \* the last call on the filter and what it returned
    n_ekf,              \* calls made on the filter
    peer,               \* x, P, dt and _initialised of another vehicle's filter
    \* main_loop of the on-board unit
    interval,           \* interval, the loop period in seconds
    seq_len,            \* predictor.seq_len
    buffer_len,         \* len(predictor._buffer)
    payload,            \* the payload of the latest cycle, with the calls it made
    cycle               \* cycle

rl_vars == <<max_capacity, epsilon, q_table, current_warnings, total_decisions,
             rl_out, epoch_bin, n_updates>>
cp_vars == <<decay_rate, grid, clock, cp_out, cp_dta, n_map_updates>>
agg_vars == <<distance_threshold, pair_cache, agg_out, n_aggregates, score_eval>>
ra_vars == <<ttc_high, ttc_medium, min_dist_alert, ra_out>>
ekf_vars ==
    <<ekf_dt, ekf_x, ekf_P, ekf_Q, R_gps, R_imu, R_radar, initialised, ekf_out, n_ekf,
      peer>>
obu_vars == <<interval, seq_len, buffer_len, payload, cycle>>
vars == <<rl_vars, cp_vars, agg_vars, ra_vars, ekf_vars, obu_vars>>

----------------------------------------------------------------------------
(* Exact rational arithmetic standing for double precision floats.         *)

RECURSIVE GCD(_, _)
GCD(a, b) == IF b = 0 THEN a ELSE GCD(b, a % b)

Abs(a) == IF a < 0 THEN -a ELSE a

Norm(n, d) ==
    LET s == IF d < 0 THEN -1 ELSE 1
        g == GCD(Abs(n), Abs(d))
    IN  <<(s * n) \div g, (s * d) \div g>>

Rat(n) == <<n, 1>>
RAdd(p, q) == Norm(p[1] * q[2] + q[1] * p[2], p[2] * q[2])
RSub(p, q) == Norm(p[1] * q[2] - q[1] * p[2], p[2] * q[2])
RMul(p, q) == Norm(p[1] * q[1], p[2] * q[2])
RDiv(p, q) == Norm(p[1] * q[2], p[2] * q[1])
RLt(p, q) == p[1] * q[2] < q[1] * p[2]
RLe(p, q) == p[1] * q[2] <= q[1] * p[2]
RMin(p, q) == IF RLe(p, q) THEN p ELSE q
RMax(p, q) == IF RLt(p, q) THEN q ELSE p

RECURSIVE RPow(_, _)
RPow(p, k) == IF k = 0 THEN Rat(1) ELSE RMul(p, RPow(p, k - 1))

\* round(x, k) for 10^k = scale: the nearest multiple of 1/scale
Round(p, scale) == Norm((2 * p[1] * scale + p[2]) \div (2 * p[2]), scale)

----------------------------------------------------------------------------
(* RLDisseminator                                                          *)

Actions == <<"WARN", "SKIP">>
RiskLevels == {"LOW", "MEDIUM", "HIGH"}
LoadBins == {"LOW", "MED", "HIGH"}
BinRank(b) == CASE b = "LOW" -> 0 [] b = "MED" -> 1 [] b = "HIGH" -> 2

\* bounds and input sets of the policy model
MaxDecisions == 3
MaxUpdates == 2
Capacities == {1, 2}
Epsilons == {Rat(0), <<3, 20>>}
RandomDraws == {Rat(0), <<1, 2>>}          \* values of random.random()
LearningRate == <<1, 4>>                    \* learning_rate
Discount == <<1, 2>>                        \* discount
Rewards == {Rat(1)}                        \* reward passed to update
DecideLevels == {"HIGH", "LOW"}             \* risk levels passed to decide
UpdateLevels == {"HIGH"}                    \* risk levels passed to update
UpdateLoads == {Rat(0), Rat(1)}             \* channel loads passed to update

IntMax(a, b) == IF a >= b THEN a ELSE b

get_state(risk_level, channel_load) ==
    LET load_bin == IF RLt(channel_load, <<2, 5>>) THEN "LOW"
                    ELSE IF RLt(channel_load, <<3, 4>>) THEN "MED" ELSE "HIGH"
    IN  <<risk_level, load_bin>>

QStates == RiskLevels \X LoadBins
QZero == [s \in QStates |-> [a \in {"WARN", "SKIP"} |-> Rat(0)]]

\* max(q_vals, key=q_vals.get): the first key, in insertion order, of maximal value
ArgMaxTieSkip(q_vals) ==
    IF RLt(q_vals["SKIP"], q_vals["WARN"]) THEN "WARN" ELSE "SKIP"
ArgMax(q_vals) ==
    IF RLt(q_vals[Actions[1]], q_vals[Actions[2]]) THEN Actions[2] ELSE Actions[1]

channel_load_of(warnings, cap) == Norm(warnings, IntMax(cap, 1))

\* the action decide picks: u is random.random(), pick is random.choice(ACTIONS)
ChooseAction(q, eps, state, u, pick) ==
    IF RLt(u, eps) THEN pick ELSE ArgMax(q[state])

\* decide: the new counters and the decision taken
decide(q, eps, cap, warnings, total, risk_level, u, pick) ==
    LET state == get_state(risk_level, channel_load_of(warnings, cap))
        action == ChooseAction(q, eps, state, u, pick)
    IN  [warnings |-> IF action = "WARN" THEN warnings + 1 ELSE warnings,
         total |-> total + 1,
         action |-> action,
         bin |-> state[2],
         seen |-> warnings]

\* update: the Q-table after the Q-learning step
q_update_no_bootstrap(q, risk_level, channel_load, action, reward, next_risk_level, next_channel_load) ==
    LET state == get_state(risk_level, channel_load)
        current_q == q[state][action]
        new_q == RAdd(current_q, RMul(LearningRate, RSub(reward, current_q)))
    IN  [q EXCEPT ![state][action] = new_q]
q_update(q, risk_level, channel_load, action, reward, next_risk_level, next_channel_load) ==
    LET state == get_state(risk_level, channel_load)
        next_state == get_state(next_risk_level, next_channel_load)
        current_q == q[state][action]
        next_max_q == RMax(q[next_state]["WARN"], q[next_state]["SKIP"])
        new_q == RAdd(current_q,
                      RMul(LearningRate,
                           RSub(RAdd(reward, RMul(Discount, next_max_q)),
                                current_q)))
    IN  [q EXCEPT ![state][action] = new_q]

reset_epoch_keep(warnings) == warnings
reset_epoch_counter(warnings) == 0

----------------------------------------------------------------------------
(* RiskAggregator                                                          *)
(* A vehicle is [id, x, y, vx, vy]: positions in units of 0.1 m and        *)
(* velocities in units of 0.1 m/s, so that 0.1 m/s is the integer 1.  The  *)
(* vehicles dict is the sequence of its items in insertion order.          *)

Veh(id, x, y, vx, vy) == [id |-> id, x |-> x, y |-> y, vx |-> vx, vy |-> vy]

\* the states each tracked vehicle may report
VehicleOptions ==
    [A |-> {Veh("A", 0, 0, 50, 0), Veh("A", 0, 0, 0, 0), Veh("A", 0, 0, 1, 0)},
     B |-> {Veh("B", 500, 0, -50, 0), Veh("B", 300, 0, -50, 0),
            Veh("B", 300, 400, 0, 0)},
     C |-> {Veh("C", 2500, 0, -47, 0), Veh("C", 300, 0, 2, 0)}]
Thresholds == {Rat(200), Rat(40)}          \* distance_threshold, metres
MaxAggregates == 2

\* the integer square root, by bisection on lo..hi
RECURSIVE Bisect(_, _, _)
Bisect(n, lo, hi) ==
    IF lo >= hi THEN lo
    ELSE LET mid == (lo + hi + 1) \div 2
         IN  IF mid * mid <= n THEN Bisect(n, mid, hi) ELSE Bisect(n, lo, mid - 1)

\* math.sqrt on the perfect squares the inputs are restricted to
Sqrt(n) == Bisect(n, 0, IF n < 40000 THEN n ELSE 40000)
IsSquare(n) == Sqrt(n) * Sqrt(n) = n

SqDist(va, vb) == (va.x - vb.x) * (va.x - vb.x) + (va.y - vb.y) * (va.y - vb.y)
SqRelSpeed(va, vb) ==
    (va.vx - vb.vx) * (va.vx - vb.vx) + (va.vy - vb.vy) * (va.vy - vb.vy)

RECURSIVE SubSeqs(_)
\* the dicts over a list of option sets: each key absent or bound to one option
SubSeqs(opts) ==
    IF opts = <<>> THEN {<<>>}
    ELSE LET rest == SubSeqs(Tail(opts))
         IN  rest \cup {<<v>> \o r : v \in Head(opts), r \in rest}

Fleets ==
    {f \in SubSeqs(<<VehicleOptions.A, VehicleOptions.B, VehicleOptions.C>>) :
        \A i, j \in 1..Len(f) :
            IsSquare(SqDist(f[i], f[j])) /\ IsSquare(SqRelSpeed(f[i], f[j]))}

\* a < b on the ids "A", "B", "C"
IdRank(id) == CASE id = "A" -> 1 [] id = "B" -> 2 [] id = "C" -> 3
\* tuple(sorted([id_a, id_b]))
pair_key_as_given(id_a, id_b) == <<id_a, id_b>>
PairKey(id_a, id_b) ==
    IF IdRank(id_b) < IdRank(id_a) THEN <<id_b, id_a>> ELSE <<id_a, id_b>>

Inf == <<1, 0>>                             \* float("inf")
None == <<0, 0>>                            \* None

RiskLevelOf(risk_score) ==
    IF RLt(<<7, 10>>, risk_score) THEN "HIGH"
    ELSE IF RLt(<<3, 10>>, risk_score) THEN "MEDIUM" ELSE "LOW"

\* dist > self.distance_threshold
out_of_range_or_at(threshold, dist) == RLe(threshold, dist)
out_of_range(threshold, dist) == RLt(threshold, dist)

\* ttc = dist / rel_speed if rel_speed > 0.1 else float("inf")
pair_ttc(dist, rel_speed) ==
    IF RLt(<<1, 10>>, rel_speed) THEN RDiv(dist, rel_speed) ELSE Inf

\* the risk score of a pair from its ttc and distance
pair_risk_score_far_is_one(ttc, dist) ==
    IF ttc # Inf /\ RLt(ttc, Rat(100))
    THEN RMin(Rat(1), RMul(RMul(RDiv(Rat(1), RAdd(ttc, <<1, 10>>)),
                                RDiv(Rat(1), RAdd(dist, Rat(1)))), Rat(50)))
    ELSE Rat(1)
pair_risk_score_no_clamp(ttc, dist) ==
    IF ttc # Inf /\ RLt(ttc, Rat(100))
    THEN RMul(RMul(RDiv(Rat(1), RAdd(ttc, <<1, 10>>)),
                   RDiv(Rat(1), RAdd(dist, Rat(1)))), Rat(50))
    ELSE Rat(0)
pair_risk_score(ttc, dist) ==
    IF ttc # Inf /\ RLt(ttc, Rat(100))
    THEN RMin(Rat(1), RMul(RMul(RDiv(Rat(1), RAdd(ttc, <<1, 10>>)),
                                RDiv(Rat(1), RAdd(dist, Rat(1)))), Rat(50)))
    ELSE Rat(0)

\* _compute_pair_risk: <<>> for None, or <<record>>; ttc and score are the
\* method's unrounded locals ttc and risk_score (score is what the pair cache
\* receives); the record's timestamp is left out
compute_pair_risk(threshold, va, vb) ==
    LET dist == Norm(Sqrt(SqDist(va, vb)), 10)
        rel_speed == Norm(Sqrt(SqRelSpeed(va, vb)), 10)
        ttc == pair_ttc(dist, rel_speed)
        risk_score == pair_risk_score(ttc, dist)
    IN  IF out_of_range(threshold, dist) THEN <<>>
        ELSE <<[vehicle_a |-> va.id, vehicle_b |-> vb.id,
                distance_m |-> Round(dist, 100),
                relative_speed_mps |-> Round(rel_speed, 100),
                ttc_seconds |-> IF ttc # Inf /\ RLt(ttc, Rat(1000))
                                THEN Round(ttc, 100) ELSE None,
                risk_score |-> Round(risk_score, 10000),
                risk_level |-> RiskLevelOf(risk_score),
                ttc |-> ttc, score |-> risk_score]>>

\* the (i, j) of aggregate's nested loops over range(len(ids)), in loop order
RECURSIVE IndexPairs(_, _, _)
IndexPairs(i, j, n) ==
    IF i > n THEN <<>>
    ELSE IF j > n THEN IndexPairs(i + 1, i + 2, n)
    ELSE <<<<i, j>>>> \o IndexPairs(i, j + 1, n)

\* list.sort(key=risk_score, reverse=True): stable, equal keys keep their order
RECURSIVE InsertDesc(_, _)
InsertDesc(s, r) ==
    IF s = <<>> THEN <<r>>
    ELSE IF RLt(Head(s).risk_score, r.risk_score) THEN <<r>> \o s
    ELSE <<Head(s)>> \o InsertDesc(Tail(s), r)

RECURSIVE SortDesc(_)
SortDesc(s) ==
    IF s = <<>> THEN <<>>
    ELSE InsertDesc(SortDesc(SubSeq(s, 1, Len(s) - 1)), s[Len(s)])

CachePut(cache, key, value) ==
    [k \in DOMAIN cache \cup {key} |-> IF k = key THEN value ELSE cache[k]]

\* the loops of aggregate over the remaining index pairs
RECURSIVE AggregateLoop(_, _, _, _, _)
AggregateLoop(threshold, vehicles, pairs, risks, cache) ==
    IF pairs = <<>> THEN [risks |-> risks, cache |-> cache]
    ELSE LET v1 == vehicles[Head(pairs)[1]]
             v2 == vehicles[Head(pairs)[2]]
             record == compute_pair_risk(threshold, v1, v2)
         IN  AggregateLoop(threshold, vehicles, Tail(pairs), risks \o record,
                 IF record = <<>> THEN cache
                 ELSE CachePut(cache, PairKey(v1.id, v2.id), record[1].score))

aggregate_unsorted(threshold, cache, vehicles) ==
    LET done == AggregateLoop(threshold, vehicles,
                              IndexPairs(1, 2, Len(vehicles)), <<>>, cache)
    IN  [ret |-> done.risks, cache |-> done.cache]
aggregate(threshold, cache, vehicles) ==
    LET done == AggregateLoop(threshold, vehicles,
                              IndexPairs(1, 2, Len(vehicles)), <<>>, cache)
    IN  [ret |-> SortDesc(done.risks), cache |-> done.cache]

----------------------------------------------------------------------------
(* CollisionProbabilityMap                                                 *)
(* The grid dict is the sequence of its entries in insertion order, each   *)
(* [cell, score, updated_at, vehicles].  The map is built with lat_ref =   *)
(* lon_ref = 0 and grid_size = 50; latitudes and longitudes are in units   *)
(* of 0.0001 degree; decay_rate is in units of ln 2 per second, so that    *)
(* math.exp(-decay_rate * elapsed) is the rational 2^(-decay_rate*elapsed).*)

MaxClock == 2
MaxMapUpdates == 2                          \* update calls, over the whole map
MaxCellUpdates == 4                         \* update calls, onto a single cell
GridSize == 50
DecayRates == {0, 3}
Locations == {<<0, 0>>, <<4, 0>>, <<5, 0>>}     \* (lat, lon)
MapVehicles == {"A", "B"}
MapRiskScores == {Rat(0), Rat(1)}
HotspotThresholds == {<<3, 10>>, Rat(-1)}

\* math.exp(-rate * elapsed) for rate in units of ln 2
ExpDecay(rate, elapsed) ==
    IF rate * elapsed >= 0 THEN <<1, 2 ^ (rate * elapsed)>>
    ELSE <<2 ^ (-(rate * elapsed)), 1>>

latlon_to_cell(lat, lon) ==
    LET dx == lon * 111320      \* metres * 10000, cos(radians(0)) = 1
        dy == lat * 110540
        col == dx \div (GridSize * 10000)
        row == dy \div (GridSize * 10000)
    IN  <<row, col>>

Cells(g) == {g[i].cell : i \in 1..Len(g)}
CellIndex(g, cell) == CHOOSE i \in 1..Len(g) : g[i].cell = cell
Entry(g, cell) == g[CellIndex(g, cell)]

\* self._grid[cell] on the defaultdict: a missing key is inserted
GridGet(g, now, cell) ==
    IF cell \in Cells(g) THEN g
    ELSE Append(g, [cell |-> cell, score |-> Rat(0), updated_at |-> now,
                    vehicles |-> {}])

cp_update_no_clamp(g, rate, now, vehicle_id, lat, lon, risk_score) ==
    LET cell == latlon_to_cell(lat, lon)
        g1 == GridGet(g, now, cell)
        i == CellIndex(g1, cell)
    IN  [g1 EXCEPT ![i].score = RAdd(g1[i].score, RMul(risk_score, <<3, 10>>)),
                   ![i].updated_at = now,
                   ![i].vehicles = g1[i].vehicles \cup {vehicle_id}]
cp_update_decay_first(g, rate, now, vehicle_id, lat, lon, risk_score) ==
    LET cell == latlon_to_cell(lat, lon)
        g1 == GridGet(g, now, cell)
        i == CellIndex(g1, cell)
        decayed == RMul(g1[i].score, ExpDecay(rate, now - g1[i].updated_at))
    IN  [g1 EXCEPT ![i].score = RMin(Rat(1), RAdd(decayed, RMul(risk_score, <<3, 10>>))),
                   ![i].updated_at = now,
                   ![i].vehicles = g1[i].vehicles \cup {vehicle_id}]
cp_update(g, rate, now, vehicle_id, lat, lon, risk_score) ==
    LET cell == latlon_to_cell(lat, lon)
        g1 == GridGet(g, now, cell)
        i == CellIndex(g1, cell)
    IN  [g1 EXCEPT ![i].score = RMin(Rat(1), RAdd(g1[i].score, RMul(risk_score, <<3, 10>>))),
                   ![i].updated_at = now,
                   ![i].vehicles = g1[i].vehicles \cup {vehicle_id}]

\* get_risk_at: the grid afterwards and the value returned
get_risk_at_inserting(g, rate, now, lat, lon) ==
    LET cell == latlon_to_cell(lat, lon)
        g1 == GridGet(g, now, cell)
        entry == Entry(g1, cell)
        decayed == RMul(entry.score, ExpDecay(rate, now - entry.updated_at))
    IN  [grid |-> g1, ret |-> Round(decayed, 10000)]
get_risk_at(g, rate, now, lat, lon) ==
    LET cell == latlon_to_cell(lat, lon)
    IN  IF cell \notin Cells(g) THEN [grid |-> g, ret |-> Rat(0)]
        ELSE LET entry == Entry(g, cell)
                 elapsed == now - entry.updated_at
                 decayed == RMul(entry.score, ExpDecay(rate, elapsed))
             IN  [grid |-> g, ret |-> Round(decayed, 10000)]

\* the loop of get_hotspots over the grid's items
RECURSIVE HotspotLoop(_, _, _, _)
HotspotLoop(g, rate, now, threshold) ==
    IF g = <<>> THEN <<>>
    ELSE LET entry == Head(g)
             elapsed == now - entry.updated_at
             current == RMul(entry.score, ExpDecay(rate, elapsed))
         IN  (IF RLt(threshold, current)
              THEN <<[cell |-> entry.cell, risk_score |-> Round(current, 10000),
                      vehicles |-> entry.vehicles]>>
              ELSE <<>>) \o HotspotLoop(Tail(g), rate, now, threshold)

get_hotspots_unsorted(g, rate, now, threshold) ==
    [grid |-> g, ret |-> HotspotLoop(g, rate, now, threshold)]
get_hotspots(g, rate, now, threshold) ==
    [grid |-> g, ret |-> SortDesc(HotspotLoop(g, rate, now, threshold))]

\* the first loop of decay_all: every entry decayed and stamped
Decayed(g, rate, now) ==
    [i \in 1..Len(g) |->
        [g[i] EXCEPT !.score = RMul(g[i].score, ExpDecay(rate, now - g[i].updated_at)),
                     !.updated_at = now]]

decay_all_no_stamp(g, rate, now) ==
    SelectSeq([i \in 1..Len(g) |->
                  [g[i] EXCEPT !.score =
                      RMul(g[i].score, ExpDecay(rate, now - g[i].updated_at))]],
              LAMBDA e : ~RLt(e.score, <<1, 100>>))
decay_all_keep_dead(g, rate, now) == Decayed(g, rate, now)
decay_all(g, rate, now) ==
    SelectSeq(Decayed(g, rate, now), LAMBDA e : ~RLt(e.score, <<1, 100>>))

active_cells(g) == Len(g)

----------------------------------------------------------------------------
(* CollisionRiskAssessor                                                   *)
(* A waypoint is [x, y] with integer coordinates in metres, a trajectory a *)
(* sequence of waypoints; index i of the code is position i + 1 here.  An  *)
(* assessment is [risk_level, ttc_seconds, min_distance_m,                 *)
(* intersection_point, details]; details is <<"none">> for "No collision   *)
(* risk detected", <<"closest", idx>> for "Closest threat: vehicle #idx",  *)
(* <<"radar">> for the radar text and <<>> for "".                         *)

MaxOthers == 2                              \* trajectories passed to assess
Pt(x, y) == [x |-> x, y |-> y]
NoPoint == <<None, None>>                   \* intersection_point None
RiskRank(level) == CASE level = "LOW" -> 0 [] level = "MEDIUM" -> 1 [] level = "HIGH" -> 2

\* ttc_threshold_high, ttc_threshold_medium, min_distance_alert_m
AssessorConfigs == {<<Rat(2), Rat(5), Rat(10)>>, <<Rat(1), Rat(3), Rat(7)>>}
EgoTrajectories == {<<Pt(0, 0), Pt(18, 0), Pt(36, 0)>>, <<>>}
OtherTrajectories ==
    {<<Pt(9, 12), Pt(9, -12)>>,               \* crosses the ego path, 15 m off
     <<Pt(0, 11), Pt(18, 11), Pt(36, 11)>>,   \* alongside at 11 m
     <<Pt(0, 20), Pt(18, 6)>>,                \* closing in to 6 m
     <<Pt(0, 6), Pt(18, 6)>>,                 \* alongside at 6 m
     <<>>}
TimeSteps == {<<1, 10>>, Rat(3)}            \* dt

\* _classify_ttc
classify_ttc_exclusive(ttc, min_dist, high, medium, alert) ==
    IF ttc # None /\ RLt(ttc, high) THEN "HIGH"
    ELSE IF ttc # None /\ RLt(ttc, medium) THEN "MEDIUM"
    ELSE IF RLt(min_dist, alert) THEN "MEDIUM"
    ELSE "LOW"
classify_ttc(ttc, min_dist, high, medium, alert) ==
    IF ttc # None /\ RLe(ttc, high) THEN "HIGH"
    ELSE IF ttc # None /\ RLe(ttc, medium) THEN "MEDIUM"
    ELSE IF RLt(min_dist, alert) THEN "MEDIUM"
    ELSE "LOW"

\* assess_radar; details is <<"radar">> when the text carries the ttc and
\* <<"no approach">> otherwise (ttc None or 0.0)
RAbs(p) == <<Abs(p[1]), p[2]>>
RadarDistances == {Rat(0), Rat(5), Rat(7), Rat(10), Rat(12), Rat(20), Rat(25), Rat(50)}
RadarVelocities ==
    {Rat(-10), Rat(-5), Rat(-4), Rat(-1), <<-11, 100>>, <<-1, 10>>, Rat(0), Rat(2)}
assess_radar(distance_m, relative_velocity, high, medium, alert) ==
    LET ttc == IF RLt(relative_velocity, <<-1, 10>>)
               THEN RAbs(RDiv(distance_m, relative_velocity))
               ELSE None
    IN  [risk_level |-> classify_ttc(ttc, distance_m, high, medium, alert),
         ttc_seconds |-> ttc,
         min_distance_m |-> distance_m,
         intersection_point |-> NoPoint,
         details |-> IF ttc # None /\ ttc # Rat(0) THEN <<"radar">> ELSE <<"no approach">>]

\* compute_ttc; positions and velocities are pairs of integers and radius an
\* integer, for which a < 1e-10 is a < 1; the calls made have a negative or
\* a perfect-square discriminant
TtcCoefficients(pos_ego, vel_ego, pos_other, vel_other, radius) ==
    LET dx == pos_other[1] - pos_ego[1]
        dy == pos_other[2] - pos_ego[2]
        dvx == vel_other[1] - vel_ego[1]
        dvy == vel_other[2] - vel_ego[2]
    IN  [a |-> dvx * dvx + dvy * dvy,
         b |-> 2 * (dx * dvx + dy * dvy),
         c |-> dx * dx + dy * dy - (2 * radius) * (2 * radius)]
compute_ttc(pos_ego, vel_ego, pos_other, vel_other, radius) ==
    LET q == TtcCoefficients(pos_ego, vel_ego, pos_other, vel_other, radius)
        disc == q.b * q.b - 4 * q.a * q.c
    IN  IF q.a < 1 THEN None
        ELSE IF disc < 0 THEN None
        ELSE LET sqrt_disc == Sqrt(disc)
                 t1 == Norm(-q.b - sqrt_disc, 2 * q.a)
                 t2 == Norm(-q.b + sqrt_disc, 2 * q.a)
             IN  IF RLt(Rat(0), t1) THEN t1
                 ELSE IF RLt(Rat(0), t2) THEN t2
                 ELSE None
TtcEgoVelocities == {<<0, 0>>, <<1, 0>>}
TtcPositions == {<<x, y>> : x \in {100, 20, 6, 4, -20}, y \in {0, 6, 8}}
TtcVelocities == {<<vx, 0>> : vx \in {-10, -1, 0, 1, 10}}
TtcRadii == {3, 5}
TtcCalls ==
    {call \in TtcEgoVelocities \X TtcPositions \X TtcVelocities \X TtcRadii :
        LET q == TtcCoefficients(<<0, 0>>, call[1], call[2], call[3], call[4])
            disc == q.b * q.b - 4 * q.a * q.c
        IN  disc < 0 \/ IsSquare(disc)}

\* _distance; the waypoints used are a whole number of metres apart
_distance(a, b) == Rat(Sqrt((a.x - b.x) * (a.x - b.x) + (a.y - b.y) * (a.y - b.y)))

\* _segment_intersection; for integer coordinates abs(denom) < 1e-10 is
\* abs(denom) < 1
segment_intersection_lines(p1, p2, p3, p4) ==
    LET denom == (p1.x - p2.x) * (p3.y - p4.y) - (p1.y - p2.y) * (p3.x - p4.x)
    IN  IF Abs(denom) < 1 THEN NoPoint
        ELSE LET t == Norm((p1.x - p3.x) * (p3.y - p4.y) - (p1.y - p3.y) * (p3.x - p4.x), denom)
             IN  <<RAdd(Rat(p1.x), RMul(t, Rat(p2.x - p1.x))),
                   RAdd(Rat(p1.y), RMul(t, Rat(p2.y - p1.y)))>>
segment_intersection(p1, p2, p3, p4) ==
    LET denom == (p1.x - p2.x) * (p3.y - p4.y) - (p1.y - p2.y) * (p3.x - p4.x)
    IN  IF Abs(denom) < 1 THEN NoPoint
        ELSE LET t == Norm((p1.x - p3.x) * (p3.y - p4.y) - (p1.y - p3.y) * (p3.x - p4.x), denom)
                 u == Norm(-((p1.x - p2.x) * (p1.y - p3.y) - (p1.y - p2.y) * (p1.x - p3.x)), denom)
             IN  IF RLe(Rat(0), t) /\ RLe(t, Rat(1)) /\ RLe(Rat(0), u) /\ RLe(u, Rat(1))
                 THEN <<RAdd(Rat(p1.x), RMul(t, Rat(p2.x - p1.x))),
                        RAdd(Rat(p1.y), RMul(t, Rat(p2.y - p1.y)))>>
                 ELSE NoPoint

\* the segments passed to _segment_intersection, as <<p1, p2>>: crossing,
\* touching at an end, parallel, collinear, reversed, of no length, and some
\* whose lines cross outside one of them
Segments ==
    {<<Pt(0, 0), Pt(4, 0)>>, <<Pt(4, 0), Pt(0, 0)>>, <<Pt(2, -2), Pt(2, 2)>>,
     <<Pt(0, 0), Pt(3, 3)>>, <<Pt(0, 3), Pt(3, 0)>>, <<Pt(0, 1), Pt(4, 1)>>,
     <<Pt(2, 0), Pt(6, 0)>>, <<Pt(4, 0), Pt(4, 4)>>, <<Pt(5, -1), Pt(5, 1)>>,
     <<Pt(1, 1), Pt(1, 1)>>, <<Pt(2, 1), Pt(2, 5)>>, <<Pt(0, 4), Pt(1, 3)>>}

\* the first loop of _evaluate_pair, from position k; acc is [min_dist, ttc,
\* intersection]
RECURSIVE DistanceLoop(_, _, _, _, _, _, _)
DistanceLoop(traj_a, traj_b, dt, alert, k, n, acc) ==
    IF k > n THEN acc
    ELSE LET dist == _distance(traj_a[k], traj_b[k])
             hit == RLt(dist, alert) /\ acc.ttc = None
             next == IF ~RLt(dist, acc.min_dist) THEN acc
                     ELSE [min_dist |-> dist,
                           ttc |-> IF hit THEN RMul(Rat(k - 1), dt) ELSE acc.ttc,
                           intersection |->
                               IF hit
                               THEN <<Norm(traj_a[k].x + traj_b[k].x, 2),
                                      Norm(traj_a[k].y + traj_b[k].y, 2)>>
                               ELSE acc.intersection]
         IN  DistanceLoop(traj_a, traj_b, dt, alert, k + 1, n, next)

\* the second loop of _evaluate_pair, from position k
RECURSIVE SegmentLoop(_, _, _, _, _, _)
SegmentLoop(traj_a, traj_b, dt, k, n, acc) ==
    IF k > n - 1 THEN acc
    ELSE LET pt == segment_intersection(traj_a[k], traj_a[k + 1],
                                        traj_b[k], traj_b[k + 1])
             t == RMul(Rat(k - 1), dt)
             next == IF pt # NoPoint /\ (acc.ttc = None \/ RLt(t, acc.ttc))
                     THEN [acc EXCEPT !.ttc = t, !.intersection = pt]
                     ELSE acc
         IN  SegmentLoop(traj_a, traj_b, dt, k + 1, n, next)

\* _evaluate_pair
evaluate_pair_no_segments(traj_a, traj_b, dt, high, medium, alert) ==
    LET n == IF Len(traj_a) <= Len(traj_b) THEN Len(traj_a) ELSE Len(traj_b)
        acc == DistanceLoop(traj_a, traj_b, dt, alert, 1, n,
                            [min_dist |-> Inf, ttc |-> None, intersection |-> NoPoint])
    IN  [risk_level |-> classify_ttc(acc.ttc, acc.min_dist, high, medium, alert),
         ttc_seconds |-> acc.ttc,
         min_distance_m |-> acc.min_dist,
         intersection_point |-> acc.intersection,
         details |-> <<>>]
evaluate_pair(traj_a, traj_b, dt, high, medium, alert) ==
    LET n == IF Len(traj_a) <= Len(traj_b) THEN Len(traj_a) ELSE Len(traj_b)
        first == DistanceLoop(traj_a, traj_b, dt, alert, 1, n,
                              [min_dist |-> Inf, ttc |-> None, intersection |-> NoPoint])
        acc == SegmentLoop(traj_a, traj_b, dt, 1, n, first)
    IN  [risk_level |-> classify_ttc(acc.ttc, acc.min_dist, high, medium, alert),
         ttc_seconds |-> acc.ttc,
         min_distance_m |-> acc.min_dist,
         intersection_point |-> acc.intersection,
         details |-> <<>>]

\* the loop of assess over enumerate(other_trajectories), from position k
RECURSIVE AssessLoop(_, _, _, _, _, _, _, _)
AssessLoop(ego, others, dt, high, medium, alert, k, worst) ==
    IF k > Len(others) THEN worst
    ELSE LET result == evaluate_pair(ego, others[k], dt, high, medium, alert)
         IN  AssessLoop(ego, others, dt, high, medium, alert, k + 1,
                 IF RLt(result.min_distance_m, worst.min_distance_m)
                 THEN [result EXCEPT !.details = <<"closest", k - 1>>]
                 ELSE worst)

\* the assessment assess starts from
NoRisk ==
    [risk_level |-> "LOW", ttc_seconds |-> None, min_distance_m |-> Inf,
     intersection_point |-> NoPoint, details |-> <<"none">>]

\* assess
RECURSIVE AssessLoopLast(_, _, _, _, _, _, _, _)
AssessLoopLast(ego, others, dt, high, medium, alert, k, worst) ==
    IF k > Len(others) THEN worst
    ELSE LET result == evaluate_pair(ego, others[k], dt, high, medium, alert)
         IN  AssessLoopLast(ego, others, dt, high, medium, alert, k + 1,
                 IF RLe(result.min_distance_m, worst.min_distance_m)
                 THEN [result EXCEPT !.details = <<"closest", k - 1>>]
                 ELSE worst)
assess_last_on_ties(ego, others, dt, high, medium, alert) ==
    AssessLoopLast(ego, others, dt, high, medium, alert, 1, NoRisk)
assess(ego, others, dt, high, medium, alert) ==
    AssessLoop(ego, others, dt, high, medium, alert, 1, NoRisk)

----------------------------------------------------------------------------
(* ExtendedKalmanFilter                                                    *)
(* A vector is a sequence of rationals and a matrix a sequence of rows.    *)

MaxEkfCalls == 2                            \* calls made on one filter
StateDim == 6

\* sums, differences, products and quotients of rationals that cancel
\* common factors before they multiply, so that the intermediate integers
\* stay small
QMul(p, q) ==
    LET g == GCD(Abs(p[1]), q[2])
        h == GCD(Abs(q[1]), p[2])
    IN  IF p[1] = 0 \/ q[1] = 0 THEN Rat(0)
        ELSE <<(p[1] \div g) * (q[1] \div h), (p[2] \div h) * (q[2] \div g)>>
QDiv(p, q) == QMul(p, IF q[1] < 0 THEN <<-q[2], -q[1]>> ELSE <<q[2], q[1]>>)
QAdd(p, q) ==
    LET g == GCD(p[2], q[2])
    IN  Norm(p[1] * (q[2] \div g) + q[1] * (p[2] \div g), (p[2] \div g) * q[2])
QSub(p, q) == QAdd(p, <<-q[1], q[2]>>)

RECURSIVE RSum(_, _)
RSum(f, n) == IF n = 0 THEN Rat(0) ELSE QAdd(RSum(f, n - 1), f[n])
Rows(A) == Len(A)
Cols(A) == Len(A[1])
\* a sequence given by a rule, with its elements worked out once
Vec(f) == f \o <<>>
Eye(n) == Vec([i \in 1..n |-> Vec([j \in 1..n |-> IF i = j THEN Rat(1) ELSE Rat(0)])])
MatScale(A, c) ==
    Vec([i \in 1..Rows(A) |-> Vec([j \in 1..Cols(A) |-> QMul(A[i][j], c)])])
MatAdd(A, B) ==
    Vec([i \in 1..Rows(A) |-> Vec([j \in 1..Cols(A) |-> QAdd(A[i][j], B[i][j])])])
MatSub(A, B) ==
    Vec([i \in 1..Rows(A) |-> Vec([j \in 1..Cols(A) |-> QSub(A[i][j], B[i][j])])])
MatT(A) == Vec([j \in 1..Cols(A) |-> Vec([i \in 1..Rows(A) |-> A[i][j]])])
MatMul(A, B) ==
    Vec([i \in 1..Rows(A) |-> Vec([j \in 1..Cols(B) |->
        RSum(Vec([k \in 1..Cols(A) |-> QMul(A[i][k], B[k][j])]), Cols(A))])])
MatVec(A, v) ==
    Vec([i \in 1..Rows(A) |->
        RSum(Vec([k \in 1..Cols(A) |-> QMul(A[i][k], v[k])]), Cols(A))])
VecAdd(v, w) == Vec([i \in 1..Len(v) |-> QAdd(v[i], w[i])])
VecSub(v, w) == Vec([i \in 1..Len(v) |-> QSub(v[i], w[i])])

\* np.linalg.inv of a 1 x 1 or 2 x 2 matrix; it raises LinAlgError exactly
\* when the determinant is 0
Det(S) ==
    IF Rows(S) = 1 THEN S[1][1]
    ELSE QSub(QMul(S[1][1], S[2][2]), QMul(S[1][2], S[2][1]))
Inv(S) ==
    IF Rows(S) = 1 THEN <<<<QDiv(Rat(1), S[1][1])>>>>
    ELSE LET d == Det(S)
         IN  <<<<QDiv(S[2][2], d), QDiv(QSub(Rat(0), S[1][2]), d)>>,
               <<QDiv(QSub(Rat(0), S[2][1]), d), QDiv(S[1][1], d)>>>>

\* the square root of a rational that is the square of a rational
RSqrt(p) == <<Sqrt(p[1]), Sqrt(p[2])>>

\* _state_transition
state_transition(dt) ==
    Vec([i \in 1..StateDim |-> Vec([j \in 1..StateDim |->
        IF i = j THEN Rat(1)
        ELSE IF (i = 1 /\ j = 3) \/ (i = 2 /\ j = 4) THEN dt
        ELSE IF (i = 1 /\ j = 5) \/ (i = 2 /\ j = 6) THEN QMul(<<1, 2>>, QMul(dt, dt))
        ELSE IF (i = 3 /\ j = 5) \/ (i = 4 /\ j = 6) THEN dt
        ELSE Rat(0)])])

\* predict, after self.dt is set: the new x and P
predict_one_sided(x, P, Q, dt) ==
    LET F == state_transition(dt)
    IN  [x |-> MatVec(F, x), P |-> MatAdd(MatMul(F, P), Q)]
predict(x, P, Q, dt) ==
    LET F == state_transition(dt)
    IN  [x |-> MatVec(F, x), P |-> MatAdd(MatMul(MatMul(F, P), MatT(F)), Q)]

\* the innovation covariance S of _ekf_update
innovation_covariance(P, H, R) == MatAdd(MatMul(MatMul(H, P), MatT(H)), R)

\* _ekf_update: the new x and P, unchanged when S is singular
ekf_update_reset(x, P, z, H, R) ==
    LET y == VecSub(z, MatVec(H, x))
        S == innovation_covariance(P, H, R)
    IN  IF Det(S) = Rat(0) THEN [x |-> x, P |-> MatScale(Eye(StateDim), Rat(10))]
        ELSE LET K == MatMul(MatMul(P, MatT(H)), Inv(S))
             IN  [x |-> VecAdd(x, MatVec(K, y)),
                  P |-> MatMul(MatSub(Eye(StateDim), MatMul(K, H)), P)]
ekf_update(x, P, z, H, R) ==
    LET y == VecSub(z, MatVec(H, x))
        S == innovation_covariance(P, H, R)
    IN  IF Det(S) = Rat(0) THEN [x |-> x, P |-> P]
        ELSE LET K == MatMul(MatMul(P, MatT(H)), Inv(S))
             IN  [x |-> VecAdd(x, MatVec(K, y)),
                  P |-> MatMul(MatSub(Eye(StateDim), MatMul(K, H)), P)]

\* the matrix of n rows that observes the state components from first on
Observe(n, first) ==
    Vec([i \in 1..n |->
        Vec([j \in 1..StateDim |-> IF j = first + i - 1 THEN Rat(1) ELSE Rat(0)])])

\* _latlon_to_metres of the point (_REF_LAT + dlat, _REF_LON + dlon), in
\* degrees; cos(radians(_REF_LAT)) = 0.87787 is taken as 36/41 = 0.87805
MetresPerDegLat == 110540
MetresPerDegLon == 111320
CosRefLat == <<36, 41>>
latlon_to_metres(dlat, dlon) ==
    <<QMul(QMul(dlon, Rat(MetresPerDegLon)), CosRefLat), QMul(dlat, Rat(MetresPerDegLat))>>

\* update_gps: the new x, P and _initialised
update_gps_no_seed(x, P, R, init, dlat, dlon) ==
    LET u == ekf_update(x, P, latlon_to_metres(dlat, dlon), Observe(2, 1), R)
    IN  [x |-> u.x, P |-> u.P, initialised |-> TRUE]
update_gps(x, P, R, init, dlat, dlon) ==
    LET z == latlon_to_metres(dlat, dlon)
        u == ekf_update(x, P, z, Observe(2, 1), R)
    IN  [x |-> IF init THEN u.x ELSE <<z[1], z[2]>> \o SubSeq(u.x, 3, StateDim),
         P |-> u.P,
         initialised |-> TRUE]

\* update_imu
update_imu(x, P, R, ax, ay) == ekf_update(x, P, <<ax, ay>>, Observe(2, 5), R)

\* sqrt(px^2 + py^2), worked out as |px| * sqrt(1 + (py / px)^2)
Hypot(px, py) ==
    IF px[1] = 0 THEN RAbs(py)
    ELSE LET ratio == QDiv(py, px)
         IN  QMul(RAbs(px), RSqrt(QAdd(Rat(1), QMul(ratio, ratio))))

\* update_radar
RadarFloor == <<1, 1000000>>                \* 1e-6
\* max(p, 1e-6) for p >= 0; p < 1e-6 is p[1] * 10^6 < p[2]
FloorAt(p) == IF p[1] <= (p[2] - 1) \div RadarFloor[2] THEN RadarFloor ELSE p
radar_H(x) ==
    LET px == x[1]
        py == x[2]
        r == FloorAt(Hypot(px, py))
    IN  <<Vec([j \in 1..StateDim |->
              IF j = 1 THEN QDiv(px, r) ELSE IF j = 2 THEN QDiv(py, r) ELSE Rat(0)])>>
update_radar(x, P, R, dist) == ekf_update(x, P, <<dist>>, radar_H(x), R)

\* the arguments of the calls: GPS fixes 5, 10 and 15 m from the reference
\* point, accelerations of 0, 5 and 10 m/s^2 and ranges of 5, 10 and 15 m, all
\* along the direction (3, 4), which keeps sqrt(px^2 + py^2) rational
PredictDts == {Rat(1), Rat(2)}
GpsFixes == {<<<<k, 27635>>, <<41 * k, 1335840>>>> : k \in {1, 2, 3}}
ImuReadings == {<<Rat(3 * k), Rat(4 * k)>> : k \in {0, 1, 2}}
RadarRanges == {Rat(5), Rat(10), Rat(15)}

----------------------------------------------------------------------------
(* Initial states: each object as its constructor leaves it                *)

InitRL(caps, epss) ==
    /\ max_capacity \in caps
    /\ epsilon \in epss
    /\ q_table = QZero
    /\ current_warnings = 0
    /\ total_decisions = 0
    /\ rl_out = [op |-> "init", decisions |-> <<>>]
    /\ epoch_bin = "NONE"
    /\ n_updates = 0

InitCP(rates) ==
    /\ decay_rate \in rates
    /\ grid = <<>>
    /\ clock = 0
    /\ cp_out = [op |-> "init", args |-> <<>>, ret |-> <<>>]
    /\ cp_dta = <<>>
    /\ n_map_updates = 0

InitAgg(thresholds) ==
    /\ distance_threshold \in thresholds
    /\ pair_cache = <<>>
    /\ agg_out = [op |-> "init", vehicles |-> <<>>, ret |-> <<>>]
    /\ n_aggregates = 0
    /\ score_eval = [ttc |-> None, dist |-> None, score |-> None]

InitRA(configs) ==
    /\ \E c \in configs :
          /\ ttc_high = c[1]
          /\ ttc_medium = c[2]
          /\ min_dist_alert = c[3]
    /\ ra_out = [op |-> "init", args |-> <<>>, ret |-> <<>>]

\* process_noise, measurement_noise_gps, measurement_noise_imu
EkfConfigs == {<<Rat(1), Rat(1), Rat(1)>>}
InitEKF(configs) ==
    /\ \E c \in configs :
          /\ ekf_Q = Vec([i \in 1..StateDim |-> Vec([j \in 1..StateDim |->
                        IF i # j THEN Rat(0)
                        ELSE IF i >= 5 THEN RMul(c[1], Rat(2)) ELSE c[1]])])
          /\ R_gps = MatScale(Eye(2), c[2])
          /\ R_imu = MatScale(Eye(2), c[3])
    /\ R_radar = <<<<Rat(2)>>>>
    /\ ekf_dt = <<1, 10>>
    /\ ekf_x = Vec([i \in 1..StateDim |-> Rat(0)])
    /\ ekf_P = MatScale(Eye(StateDim), Rat(10))
    /\ initialised = FALSE
    /\ ekf_out = [op |-> "init", args |-> <<>>, ret |-> <<>>]
    /\ n_ekf = 0
    /\ peer = [x |-> Vec([i \in 1..StateDim |-> Rat(0)]),
               P |-> MatScale(Eye(StateDim), Rat(10)),
               dt |-> <<1, 10>>,
               initialised |-> FALSE]

\* main_loop before its first cycle: interval from loop.interval_ms, the
\* predictor's rolling buffer empty, nothing sent yet
InitOBU(intervals, seq_lens) ==
    /\ interval \in intervals
    /\ seq_len \in seq_lens
    /\ buffer_len = 0
    /\ payload = [sent |-> FALSE]
    /\ cycle = 0

----------------------------------------------------------------------------
(* Calls on the dissemination policy                                       *)

\* what batch_decide reads of a risk record, and copies to its result
BatchRecord(r) ==
    [vehicle_a |-> r.vehicle_a, vehicle_b |-> r.vehicle_b,
     risk_level |-> r.risk_level, risk_score |-> r.risk_score]

RECURSIVE MapSeq(_, _)
MapSeq(Op(_), s) == IF s = <<>> THEN <<>> ELSE <<Op(Head(s))>> \o MapSeq(Op, Tail(s))

\* the ranked record lists a cycle hands to batch_decide: aggregate's results
RankedLists ==
    {MapSeq(BatchRecord, aggregate(t, <<>>, f).ret) : t \in Thresholds, f \in Fleets}

\* the loop of batch_decide; draws[i] = <<random.random(), random.choice(ACTIONS)>>
RECURSIVE batch_decide_unshared(_, _, _, _, _, _, _, _)
batch_decide_unshared(q, eps, cap, warnings, total, records, draws, results) ==
    IF records = <<>>
    THEN [warnings |-> warnings, total |-> total, results |-> results]
    ELSE LET record == Head(records)
             d == decide(q, eps, cap, warnings, total, record.risk_level,
                         Head(draws)[1], Head(draws)[2])
         IN  batch_decide_unshared(q, eps, cap, warnings, d.total, Tail(records),
                 Tail(draws),
                 Append(results, [record |-> record, action |-> d.action,
                                  bin |-> d.bin, seen |-> d.seen]))
RECURSIVE batch_decide(_, _, _, _, _, _, _, _)
batch_decide(q, eps, cap, warnings, total, records, draws, results) ==
    IF records = <<>>
    THEN [warnings |-> warnings, total |-> total, results |-> results]
    ELSE LET record == Head(records)
             d == decide(q, eps, cap, warnings, total, record.risk_level,
                         Head(draws)[1], Head(draws)[2])
         IN  batch_decide(q, eps, cap, d.warnings, d.total, Tail(records),
                 Tail(draws),
                 Append(results, [record |-> record, action |-> d.action,
                                  bin |-> d.bin, seen |-> d.seen]))

DrawSet == RandomDraws \X {"WARN", "SKIP"}

Decide ==
    /\ total_decisions < MaxDecisions
    /\ \E risk_level \in DecideLevels, draw \in DrawSet :
          LET d == decide(q_table, epsilon, max_capacity, current_warnings,
                          total_decisions, risk_level, draw[1], draw[2])
          IN  /\ current_warnings' = d.warnings
              /\ total_decisions' = d.total
              /\ rl_out' = [op |-> "decide",
                            decisions |-> <<[record |-> [vehicle_a |-> "A",
                                                         vehicle_b |-> "",
                                                         risk_level |-> risk_level,
                                                         risk_score |-> Rat(0)],
                                             action |-> d.action, bin |-> d.bin,
                                             seen |-> d.seen]>>]
              /\ epoch_bin' = d.bin
    /\ UNCHANGED <<max_capacity, epsilon, q_table, n_updates, cp_vars, agg_vars, ra_vars, ekf_vars, obu_vars>>

BatchDecideOn(lists) ==
    \E records \in lists :
        /\ records # <<>>
        /\ total_decisions + Len(records) <= MaxDecisions
        /\ \E draws \in [1..Len(records) -> DrawSet] :
              LET b == batch_decide(q_table, epsilon, max_capacity,
                                    current_warnings, total_decisions, records,
                                    draws, <<>>)
              IN  /\ current_warnings' = b.warnings
                  /\ total_decisions' = b.total
                  /\ rl_out' = [op |-> "batch_decide", decisions |-> b.results,
                                records |-> records]
                  /\ epoch_bin' = b.results[Len(b.results)].bin
        /\ UNCHANGED <<max_capacity, epsilon, q_table, n_updates, cp_vars, agg_vars, ra_vars, ekf_vars, obu_vars>>

Update ==
    /\ n_updates < MaxUpdates
    /\ \E risk_level \in UpdateLevels, channel_load \in UpdateLoads,
          action \in {"WARN", "SKIP"}, reward \in Rewards,
          next_risk_level \in UpdateLevels, next_channel_load \in UpdateLoads :
          /\ q_table' = q_update(q_table, risk_level, channel_load, action, reward,
                                 next_risk_level, next_channel_load)
          /\ rl_out' = [op |-> "update", decisions |-> <<>>,
                        args |-> <<risk_level, channel_load, action, reward,
                                   next_risk_level, next_channel_load>>]
    /\ n_updates' = n_updates + 1
    /\ UNCHANGED <<max_capacity, epsilon, current_warnings, total_decisions,
                   epoch_bin, cp_vars, agg_vars, ra_vars, ekf_vars, obu_vars>>

ResetEpoch ==
    /\ current_warnings' = reset_epoch_counter(current_warnings)
    /\ rl_out' = [op |-> "reset_epoch", decisions |-> <<>>]
    /\ epoch_bin' = "NONE"
    /\ UNCHANGED <<max_capacity, epsilon, q_table, total_decisions, n_updates,
                   cp_vars, agg_vars, ra_vars, ekf_vars, obu_vars>>

InitSpecRL ==
    /\ InitRL(Capacities, Epsilons)
    /\ InitCP({0})
    /\ InitAgg({Rat(200)})
    /\ InitRA({<<Rat(2), Rat(5), Rat(10)>>})
    /\ InitEKF({<<<<1, 10>>, Rat(1), <<1, 2>>>>})
    /\ InitOBU({Rat(1)}, {1})

NextRL == Decide \/ Update \/ ResetEpoch

\* the policy under single decisions and learning
SpecRL == InitSpecRL /\ [][NextRL]_vars

\* batch_decide on any of aggregate's lists
BatchDecide == BatchDecideOn(RankedLists)

NextCycle == BatchDecide \/ ResetEpoch

\* batch_decide on aggregate's lists of two records of different risk level
PairLists ==
    {l \in RankedLists : Len(l) = 2 /\ l[1].risk_level # l[2].risk_level}
BatchDecidePair == BatchDecideOn(PairLists)

NextPolicy == Decide \/ BatchDecidePair \/ Update \/ ResetEpoch

InitSpecPolicy ==
    /\ InitRL({2}, {<<3, 20>>})
    /\ InitCP({0})
    /\ InitAgg({Rat(200)})
    /\ InitRA({<<Rat(2), Rat(5), Rat(10)>>})
    /\ InitEKF({<<<<1, 10>>, Rat(1), <<1, 2>>>>})
    /\ InitOBU({Rat(1)}, {1})

\* the policy under all four of its operations
SpecPolicy == InitSpecPolicy /\ [][NextPolicy]_vars

\* the policy in the decision cycle: ranked records in, actions out
SpecCycle == InitSpecRL /\ [][NextCycle]_vars

----------------------------------------------------------------------------
(* Calls on the risk aggregator                                            *)

AggregateOn(fleets) ==
    /\ n_aggregates < MaxAggregates
    /\ \E vehicles \in fleets :
          LET r == aggregate(distance_threshold, pair_cache, vehicles)
          IN  /\ pair_cache' = r.cache
              /\ agg_out' = [op |-> "aggregate", vehicles |-> vehicles, ret |-> r.ret]
    /\ n_aggregates' = n_aggregates + 1
    /\ UNCHANGED <<distance_threshold, score_eval, rl_vars, cp_vars, ra_vars, ekf_vars, obu_vars>>

InitSpecAgg ==
    /\ InitAgg(Thresholds)
    /\ InitRL({1}, {Rat(0)})
    /\ InitCP({0})
    /\ InitRA({<<Rat(2), Rat(5), Rat(10)>>})
    /\ InitEKF({<<<<1, 10>>, Rat(1), <<1, 2>>>>})
    /\ InitOBU({Rat(1)}, {1})

\* aggregate over the fleets of VehicleOptions
Aggregate == AggregateOn(Fleets)

NextAgg == Aggregate

SpecAgg == InitSpecAgg /\ [][NextAgg]_vars

\* two vehicles on the x axis, B standing x (0.1 m) ahead of A, A driving at v
\* (0.1 m/s); (334, 169), (248, 39), (212, 68) and (382, 92) give scores
\* within 0.00005 of 0.7 and 0.3
BoundaryXs == {334, 248, 212, 382, 500, 300}
BoundaryVs == {169, 39, 68, 92, 100, 0}
BoundaryFleets ==
    {<<Veh("A", 0, 0, v, 0), Veh("B", x, 0, 0, 0)>> : x \in BoundaryXs, v \in BoundaryVs}

\* the fleets of two vehicles, in either insertion order of the dict
Reverse(f) == [i \in 1..Len(f) |-> f[Len(f) + 1 - i]]
PairFleets == LET two == {f \in Fleets : Len(f) = 2} IN two \cup {Reverse(f) : f \in two}
AggregateEitherOrder == AggregateOn(PairFleets)

\* one aggregator called on pairs of vehicles time after time
SpecCache == InitSpecAgg /\ [][AggregateEitherOrder]_vars

AggregatePair == AggregateOn(BoundaryFleets)

NextLevel == AggregatePair

\* the aggregator on pairs whose score is near a level boundary
SpecLevel == InitSpecAgg /\ [][NextLevel]_vars

\* the values of ttc (seconds) and dist (metres) the score formula is tried on
ScoreTtcs ==
    {Rat(0), <<1, 10>>, Rat(2), Rat(5), Rat(99), <<999, 10>>, Rat(100),
     <<1001, 10>>, Rat(1000), Inf}
ScoreDists ==
    {Rat(0), <<1, 2>>, Rat(1), Rat(4), Rat(5), Rat(10), Rat(50), Rat(100),
     Rat(200), Rat(499)}

\* lines 79-82 of _compute_pair_risk applied to one (ttc, dist)
ScoreEval ==
    /\ \E ttc \in ScoreTtcs, dist \in ScoreDists :
          score_eval' = [ttc |-> ttc, dist |-> dist,
                         score |-> pair_risk_score(ttc, dist)]
    /\ UNCHANGED <<distance_threshold, pair_cache, agg_out, n_aggregates,
                   rl_vars, cp_vars, ra_vars, ekf_vars, obu_vars>>

NextScore == ScoreEval

\* the score formula on its own
SpecScore == InitSpecAgg /\ [][NextScore]_vars

----------------------------------------------------------------------------
(* Calls on the collision-probability map, and the passing of time         *)

Tick ==
    /\ clock < MaxClock
    /\ clock' = clock + 1
    /\ UNCHANGED <<decay_rate, grid, cp_out, cp_dta, n_map_updates, rl_vars,
                   agg_vars, ra_vars, ekf_vars, obu_vars>>

MapUpdateWith(locations, vehicle_ids, risk_scores, limit) ==
    /\ n_map_updates < limit
    /\ \E vehicle_id \in vehicle_ids, loc \in locations, risk_score \in risk_scores :
          LET cell == latlon_to_cell(loc[1], loc[2])
              fresh == cell \notin Cells(grid)
              g == cp_update(grid, decay_rate, clock, vehicle_id, loc[1], loc[2],
                             risk_score)
              elapsed == IF fresh THEN 0 ELSE clock - Entry(grid, cell).updated_at
              old_dta == IF fresh THEN Rat(0) ELSE cp_dta[cell]
          IN  /\ grid' = g
              /\ cp_out' = [op |-> "update",
                            args |-> <<vehicle_id, loc, risk_score>>, ret |-> <<>>]
              /\ cp_dta' = [c \in Cells(g) |->
                                IF c # cell THEN cp_dta[c]
                                ELSE RMin(Rat(1),
                                          RAdd(RMul(old_dta, ExpDecay(decay_rate, elapsed)),
                                               RMul(risk_score, <<3, 10>>)))]
    /\ n_map_updates' = n_map_updates + 1
    /\ UNCHANGED <<decay_rate, clock, rl_vars, agg_vars, ra_vars, ekf_vars, obu_vars>>

GetRiskAt ==
    /\ \E loc \in Locations :
          LET r == get_risk_at(grid, decay_rate, clock, loc[1], loc[2])
          IN  /\ grid' = r.grid
              /\ cp_out' = [op |-> "get_risk_at", args |-> <<loc>>, ret |-> r.ret]
    /\ UNCHANGED <<decay_rate, clock, cp_dta, n_map_updates, rl_vars, agg_vars, ra_vars, ekf_vars, obu_vars>>

GetHotspots ==
    /\ \E threshold \in HotspotThresholds :
          LET r == get_hotspots(grid, decay_rate, clock, threshold)
          IN  /\ grid' = r.grid
              /\ cp_out' = [op |-> "get_hotspots", args |-> <<threshold>>,
                            ret |-> r.ret]
    /\ UNCHANGED <<decay_rate, clock, cp_dta, n_map_updates, rl_vars, agg_vars, ra_vars, ekf_vars, obu_vars>>

DecayAll ==
    /\ LET g == decay_all(grid, decay_rate, clock)
       IN  /\ grid' = g
           /\ cp_dta' = [c \in Cells(g) |-> Entry(g, c).score]
    /\ cp_out' = [op |-> "decay_all", args |-> <<>>, ret |-> <<>>]
    /\ UNCHANGED <<decay_rate, clock, n_map_updates, rl_vars, agg_vars, ra_vars, ekf_vars, obu_vars>>

MapUpdateOn(locations, vehicle_ids, limit) ==
    MapUpdateWith(locations, vehicle_ids, MapRiskScores, limit)

InitSpecCP ==
    /\ InitCP(DecayRates)
    /\ InitRL({1}, {Rat(0)})
    /\ InitAgg({Rat(200)})
    /\ InitRA({<<Rat(2), Rat(5), Rat(10)>>})
    /\ InitEKF({<<<<1, 10>>, Rat(1), <<1, 2>>>>})
    /\ InitOBU({Rat(1)}, {1})

\* updates by one vehicle anywhere on the map
MapUpdate == MapUpdateOn(Locations, {"A"}, MaxMapUpdates)

\* updates by every vehicle onto one cell
CellUpdate == MapUpdateOn({<<4, 0>>}, MapVehicles, MaxCellUpdates)

NextCP == Tick \/ MapUpdate \/ GetRiskAt \/ GetHotspots \/ DecayAll

\* the map under updates spread over its cells
SpecCP == InitSpecCP /\ [][NextCP]_vars

NextCell == Tick \/ CellUpdate \/ GetRiskAt \/ GetHotspots \/ DecayAll

\* the map under repeated updates of one cell
SpecCell == InitSpecCP /\ [][NextCell]_vars

\* the vehicles report for MaxClock seconds; the clock then runs on for
\* DrainSeconds, long enough at the slowest of DrainRates for a score of 1
\* to fall below 0.01
DrainSeconds == 3
DrainRates == {3, 4}
Elapse ==
    /\ clock < MaxClock + DrainSeconds
    /\ clock' = clock + 1
    /\ UNCHANGED <<decay_rate, grid, cp_out, cp_dta, n_map_updates, rl_vars,
                   agg_vars, ra_vars, ekf_vars, obu_vars>>
LiveUpdate == clock <= MaxClock /\ MapUpdate
InitSpecDrain ==
    /\ InitCP(DrainRates)
    /\ InitRL({1}, {Rat(0)})
    /\ InitAgg({Rat(200)})
    /\ InitRA({<<Rat(2), Rat(5), Rat(10)>>})
    /\ InitEKF({<<<<1, 10>>, Rat(1), <<1, 2>>>>})
    /\ InitOBU({Rat(1)}, {1})
NextDrain == Elapse \/ LiveUpdate \/ DecayAll

\* the map with a positive decay rate, time passing and decay_all called
\* cycle after cycle
SpecDrain ==
    InitSpecDrain /\ [][NextDrain]_vars /\ WF_vars(Elapse) /\ WF_vars(DecayAll)

\* updates whose contributions differ by less than the rounding of a query
CloseRiskScores == {<<6020, 6021>>, Rat(1)}
CloseUpdate == MapUpdateWith({<<0, 0>>, <<5, 0>>}, MapVehicles, CloseRiskScores, MaxMapUpdates)
NextHotspots == Tick \/ CloseUpdate \/ GetHotspots \/ DecayAll

InitSpecHotspots ==
    /\ InitCP({0, 1})
    /\ InitRL({1}, {Rat(0)})
    /\ InitAgg({Rat(200)})
    /\ InitRA({<<Rat(2), Rat(5), Rat(10)>>})
    /\ InitEKF({<<<<1, 10>>, Rat(1), <<1, 2>>>>})
    /\ InitOBU({Rat(1)}, {1})

\* the map under updates of two cells with nearly equal scores
SpecHotspots == InitSpecHotspots /\ [][NextHotspots]_vars

----------------------------------------------------------------------------
(* Calls on the collision risk assessor                                    *)

InitSpecRA ==
    /\ InitRA(AssessorConfigs)
    /\ InitRL({1}, {Rat(0)})
    /\ InitCP({0})
    /\ InitAgg({Rat(200)})
    /\ InitEKF({<<<<1, 10>>, Rat(1), <<1, 2>>>>})
    /\ InitOBU({Rat(1)}, {1})

\* the lists of up to MaxOthers trajectories
OtherLists == UNION {[1..n -> OtherTrajectories] : n \in 0..MaxOthers}

\* the calls of assess: the ego trajectory against every list, no ego
\* waypoints against the lists of at most one trajectory
AssessCalls ==
    {<<ego, others>> \in EgoTrajectories \X OtherLists : ego = <<>> => Len(others) <= 1}

Assess ==
    /\ \E call \in AssessCalls, dt \in TimeSteps :
          ra_out' = [op |-> "assess", args |-> <<call[1], call[2], dt>>,
                     ret |-> assess(call[1], call[2], dt, ttc_high, ttc_medium,
                                    min_dist_alert)]
    /\ UNCHANGED <<ttc_high, ttc_medium, min_dist_alert, rl_vars, cp_vars, agg_vars, ekf_vars, obu_vars>>

NextAssess == Assess

\* pairs of trajectories for _evaluate_pair: of different lengths, apart,
\* near from the start or later, crossing before or after coming near
PairTrajectories ==
    (EgoTrajectories \cup OtherTrajectories)
        \cup {<<Pt(0, 0), Pt(18, 0)>>,
              <<Pt(9, 12), Pt(18, -6)>>,               \* crosses, then near
              <<Pt(0, 6), Pt(18, 6), Pt(36, -6)>>,     \* near, then crosses
              <<Pt(0, 20), Pt(18, 20), Pt(36, 6), Pt(54, 0)>>}
EvaluatePair ==
    /\ \E traj_a \in PairTrajectories, traj_b \in PairTrajectories, dt \in TimeSteps :
          ra_out' = [op |-> "_evaluate_pair", args |-> <<traj_a, traj_b, dt>>,
                     ret |-> evaluate_pair(traj_a, traj_b, dt, ttc_high, ttc_medium,
                                           min_dist_alert)]
    /\ UNCHANGED <<ttc_high, ttc_medium, min_dist_alert, rl_vars, cp_vars, agg_vars, ekf_vars, obu_vars>>

\* the assessor under _evaluate_pair
SpecPair == InitSpecRA /\ [][EvaluatePair]_vars

AssessRadar ==
    /\ \E distance_m \in RadarDistances, relative_velocity \in RadarVelocities :
          ra_out' = [op |-> "assess_radar", args |-> <<distance_m, relative_velocity>>,
                     ret |-> assess_radar(distance_m, relative_velocity, ttc_high,
                                          ttc_medium, min_dist_alert)]
    /\ UNCHANGED <<ttc_high, ttc_medium, min_dist_alert, rl_vars, cp_vars, agg_vars, ekf_vars, obu_vars>>

NextRadar == AssessRadar

\* the assessor under assess_radar
SpecRadar == InitSpecRA /\ [][NextRadar]_vars

ComputeTtc ==
    /\ \E call \in TtcCalls :
          ra_out' = [op |-> "compute_ttc",
                     args |-> <<<<0, 0>>, call[1], call[2], call[3], call[4]>>,
                     ret |-> compute_ttc(<<0, 0>>, call[1], call[2], call[3], call[4])]
    /\ UNCHANGED <<ttc_high, ttc_medium, min_dist_alert, rl_vars, cp_vars, agg_vars, ekf_vars, obu_vars>>

NextTtc == ComputeTtc

\* the assessor under compute_ttc
SpecTtc == InitSpecRA /\ [][NextTtc]_vars

SegmentIntersection ==
    /\ \E s1 \in Segments, s2 \in Segments :
          ra_out' = [op |-> "_segment_intersection",
                     args |-> <<s1[1], s1[2], s2[1], s2[2]>>,
                     ret |-> segment_intersection(s1[1], s1[2], s2[1], s2[2])]
    /\ UNCHANGED <<ttc_high, ttc_medium, min_dist_alert, rl_vars, cp_vars, agg_vars, ekf_vars, obu_vars>>

NextSegment == SegmentIntersection

\* the assessor under _segment_intersection
SpecSegment == InitSpecRA /\ [][NextSegment]_vars


\* the assessor under assess
SpecAssess == InitSpecRA /\ [][NextAssess]_vars

\* the components built from any configuration, among them a capacity of 0,
\* epsilon 1.5, decay_rate -1, distance_threshold -5 and ttc_threshold_high
\* above ttc_threshold_medium: no __init__ looks at the values it stores
AnyCapacities == {0, 1}
AnyEpsilons == {Rat(0), <<3, 2>>}
AnyDecayRates == {0, -1}
AnyThresholds == {Rat(200), Rat(-5)}
AnyAssessorConfigs == AssessorConfigs \cup {<<Rat(5), Rat(2), Rat(10)>>}
InitSpecAny ==
    /\ InitRL(AnyCapacities, AnyEpsilons)
    /\ InitCP(AnyDecayRates)
    /\ InitAgg(AnyThresholds)
    /\ InitRA(AnyAssessorConfigs)
    /\ InitEKF(EkfConfigs)
    /\ InitOBU({Rat(1)}, {1})

\* the assessor of any configuration under assess_radar
SpecAny == InitSpecAny /\ [][NextRadar]_vars

----------------------------------------------------------------------------
(* Calls on the Kalman filter                                              *)

InitSpecEKF ==
    /\ InitEKF(EkfConfigs)
    /\ InitOBU({Rat(1)}, {1})
    /\ InitRA({<<Rat(2), Rat(5), Rat(10)>>})
    /\ InitRL({1}, {Rat(0)})
    /\ InitCP({0})
    /\ InitAgg({Rat(200)})

Predict ==
    /\ n_ekf < MaxEkfCalls
    /\ \E dt \in PredictDts :
          LET u == predict(ekf_x, ekf_P, ekf_Q, dt)
          IN  /\ ekf_dt' = dt
              /\ ekf_x' = u.x
              /\ ekf_P' = u.P
              /\ ekf_out' = [op |-> "predict", args |-> <<dt>>, ret |-> u.x]
    /\ n_ekf' = n_ekf + 1
    /\ UNCHANGED <<ekf_Q, R_gps, R_imu, R_radar, initialised, peer, rl_vars, cp_vars, agg_vars, ra_vars, obu_vars>>

UpdateGps ==
    /\ n_ekf < MaxEkfCalls
    /\ \E fix \in GpsFixes :
          LET u == update_gps(ekf_x, ekf_P, R_gps, initialised, fix[1], fix[2])
          IN  /\ ekf_x' = u.x
              /\ ekf_P' = u.P
              /\ initialised' = u.initialised
              /\ ekf_out' = [op |-> "update_gps", args |-> fix, ret |-> u.x]
    /\ n_ekf' = n_ekf + 1
    /\ UNCHANGED <<ekf_dt, ekf_Q, R_gps, R_imu, R_radar, peer, rl_vars, cp_vars, agg_vars, ra_vars, obu_vars>>

UpdateImu ==
    /\ n_ekf < MaxEkfCalls
    /\ \E a \in ImuReadings :
          LET u == update_imu(ekf_x, ekf_P, R_imu, a[1], a[2])
          IN  /\ ekf_x' = u.x
              /\ ekf_P' = u.P
              /\ ekf_out' = [op |-> "update_imu", args |-> a, ret |-> u.x]
    /\ n_ekf' = n_ekf + 1
    /\ UNCHANGED <<ekf_dt, ekf_Q, R_gps, R_imu, R_radar, initialised, peer, rl_vars, cp_vars, agg_vars, ra_vars, obu_vars>>

UpdateRadar ==
    /\ n_ekf < MaxEkfCalls
    /\ \E dist \in RadarRanges :
          LET u == update_radar(ekf_x, ekf_P, R_radar, dist)
          IN  /\ ekf_x' = u.x
              /\ ekf_P' = u.P
              /\ ekf_out' = [op |-> "update_radar", args |-> <<dist>>, ret |-> u.x]
    /\ n_ekf' = n_ekf + 1
    /\ UNCHANGED <<ekf_dt, ekf_Q, R_gps, R_imu, R_radar, initialised, peer, rl_vars, cp_vars, agg_vars, ra_vars, obu_vars>>

NextEKF == Predict \/ UpdateGps \/ UpdateImu \/ UpdateRadar

\* the caller turns to the filter of the other vehicle: the two objects
\* share no attribute, each holds the arrays its own __init__ made
SwitchEstimator ==
    /\ peer' = [x |-> ekf_x, P |-> ekf_P, dt |-> ekf_dt, initialised |-> initialised]
    /\ ekf_x' = peer.x
    /\ ekf_P' = peer.P
    /\ ekf_dt' = peer.dt
    /\ initialised' = peer.initialised
    /\ ekf_out' = [op |-> "switch", args |-> <<>>, ret |-> <<>>]
    /\ UNCHANGED <<ekf_Q, R_gps, R_imu, R_radar, n_ekf, rl_vars, cp_vars, agg_vars, ra_vars, obu_vars>>

\* process_noise, measurement_noise_gps, measurement_noise_imu: position and
\* acceleration sensors taken as exact
FleetConfigs == {<<Rat(1), Rat(0), Rat(0)>>}
InitSpecFleet ==
    /\ InitEKF(FleetConfigs)
    /\ InitOBU({Rat(1)}, {1})
    /\ InitRA({<<Rat(2), Rat(5), Rat(10)>>})
    /\ InitRL({1}, {Rat(0)})
    /\ InitCP({0})
    /\ InitAgg({Rat(200)})
NextFleet == NextEKF \/ SwitchEstimator

\* the filters of two vehicles, called in any order
SpecFleet == InitSpecFleet /\ [][NextFleet]_vars

\* one filter under any order of its calls
SpecEKF == InitSpecEKF /\ [][NextEKF]_vars

----------------------------------------------------------------------------
(* Cycles of the on-board unit                                             *)

MaxCycles == 1

\* safe_read: the reading, or None when read() raised
NoReading == [present |-> FALSE]

\* RadarSensor._parse_distance: float() of the line received, 0.0 when the
\* line is no number
_parse_distance(raw) == IF raw.text = "number" THEN raw.value ELSE Rat(0)

\* RadarSensor._read_hardware: always a reading, relative velocity 0.0;
\* wellformed tells whether the line it was made from was a number
RadarLines ==
    {[text |-> "number", value |-> Rat(5)],
     [text |-> "number", value |-> Rat(15)],
     [text |-> "garbled", value |-> None]}
_read_hardware(raw) ==
    [present |-> TRUE, wellformed |-> raw.text = "number",
     distance_m |-> _parse_distance(raw), relative_velocity_mps |-> Rat(0)]

\* RadarSensor._simulate: a range and a relative velocity
SimulatedRadar ==
    {[present |-> TRUE, wellformed |-> TRUE,
      distance_m |-> Rat(5), relative_velocity_mps |-> Rat(-5)],
     [present |-> TRUE, wellformed |-> TRUE,
      distance_m |-> Rat(15), relative_velocity_mps |-> Rat(-5)]}
RadarReads == {NoReading} \cup {_read_hardware(raw) : raw \in RadarLines}
                  \cup SimulatedRadar

\* GPS and IMU readings, latitude and longitude as offsets from the
\* reference point
GpsReads ==
    {NoReading} \cup {[present |-> TRUE, wellformed |-> TRUE,
                       latitude |-> fix[1], longitude |-> fix[2]] : fix \in GpsFixes}
ImuReads ==
    {NoReading} \cup {[present |-> TRUE, wellformed |-> TRUE,
                       accel_x |-> a[1], accel_y |-> a[2]] : a \in ImuReadings}

\* predictor.predict(): None (written <<>>) until the buffer is full, then
\* the waypoints the network puts out, or None without a runtime
PredictedTrajectories == EgoTrajectories \cup {<<Pt(0, 0), Pt(6, 8)>>}
predictor_predict(len) == IF len < seq_len THEN {<<>>} ELSE PredictedTrajectories

\* step 2 of the cycle: predict, then one update per reading that is there
fuse(x, P, init, gps, imu, radar) ==
    CHOOSE s \in
        {[x |-> s3.x, P |-> s3.P, initialised |-> s1.initialised,
          calls |-> <<"predict">>
                    \o (IF gps.present THEN <<"update_gps">> ELSE <<>>)
                    \o (IF imu.present THEN <<"update_imu">> ELSE <<>>)
                    \o (IF radar.present THEN <<"update_radar">> ELSE <<>>)] :
            <<s1, s3>> \in
              UNION {UNION {UNION {
                {<<s1, IF radar.present
                       THEN update_radar(s2.x, s2.P, R_radar, radar.distance_m)
                       ELSE [x |-> s2.x, P |-> s2.P]>>} :
                  s2 \in {IF imu.present
                          THEN update_imu(s1.x, s1.P, R_imu, imu.accel_x, imu.accel_y)
                          ELSE [x |-> s1.x, P |-> s1.P]}} :
                  s1 \in {IF gps.present
                          THEN update_gps(s0.x, s0.P, R_gps, init, gps.latitude,
                                          gps.longitude)
                          ELSE [x |-> s0.x, P |-> s0.P, initialised |-> init]}} :
                  s0 \in {predict(x, P, ekf_Q, interval)}}} : TRUE

\* the value of a RiskLevel as a str: its code points; a > b on two str
LevelValue(level) ==
    CASE level = "LOW" -> <<76, 79, 87>>
      [] level = "MEDIUM" -> <<77, 69, 68, 73, 85, 77>>
      [] level = "HIGH" -> <<72, 73, 71, 72>>
      [] level = "" -> <<>>
RECURSIVE StrGreater(_, _)
StrGreater(a, b) ==
    IF a = <<>> THEN FALSE
    ELSE IF b = <<>> THEN TRUE
    ELSE IF Head(a) # Head(b) THEN Head(a) > Head(b)
    ELSE StrGreater(Tail(a), Tail(b))

\* step 4 of the cycle: the trajectory assessment, replaced by the radar
\* assessment when there is none or when the radar's level compares greater
NoResult == [risk_level |-> "", ttc_seconds |-> None, min_distance_m |-> None,
             intersection_point |-> NoPoint, details |-> <<"None">>]
merge_risk(trajectory, radar) ==
    LET risk_result == IF trajectory # <<>>
                       THEN assess(trajectory, <<>>, <<1, 10>>,
                                   ttc_high, ttc_medium, min_dist_alert)
                       ELSE NoResult
        radar_risk == assess_radar(radar.distance_m, radar.relative_velocity_mps,
                                   ttc_high, ttc_medium, min_dist_alert)
    IN  IF ~radar.present THEN risk_result
        ELSE IF risk_result = NoResult
                \/ StrGreater(LevelValue(radar_risk.risk_level),
                              LevelValue(risk_result.risk_level))
        THEN radar_risk
        ELSE risk_result

\* one pass of the while loop of main_loop
Cycle ==
    /\ cycle < MaxCycles
    /\ \E gps \in GpsReads, imu \in ImuReads, radar \in RadarReads :
        \E s \in {fuse(ekf_x, ekf_P, initialised, gps, imu, radar)} :
        \E len \in {IF buffer_len < seq_len THEN buffer_len + 1 ELSE seq_len} :
          /\ ekf_dt' = interval
          /\ ekf_x' = s.x
          /\ ekf_P' = s.P
          /\ initialised' = s.initialised
          /\ ekf_out' = [op |-> "cycle", args |-> <<gps, imu, radar>>, ret |-> s.x]
          /\ n_ekf' = n_ekf + Len(s.calls)
          /\ buffer_len' = len
          /\ \E trajectory \in predictor_predict(len) :
              \E risk_result \in {merge_risk(trajectory, radar)} :
                payload' =
                  [sent |-> TRUE,
                   state |-> s.x,
                   level |-> IF risk_result = NoResult THEN "LOW"
                             ELSE risk_result.risk_level,
                   ttc |-> risk_result.ttc_seconds,
                   min_distance |-> risk_result.min_distance_m,
                   trajectory |-> trajectory,
                   gps |-> gps, imu |-> imu, radar |-> radar,
                   calls |-> s.calls]
    /\ cycle' = cycle + 1
    /\ UNCHANGED <<ekf_Q, R_gps, R_imu, R_radar, peer, interval, seq_len,
                   rl_vars, cp_vars, agg_vars, ra_vars>>

Intervals == {Rat(1), Rat(2)}
SeqLens == {1, 2}
InitSpecObu ==
    /\ InitEKF(EkfConfigs)
    /\ InitOBU(Intervals, SeqLens)
    /\ InitRA({<<Rat(2), Rat(5), Rat(10)>>})
    /\ InitRL({1}, {Rat(0)})
    /\ InitCP({0})
    /\ InitAgg({Rat(200)})

\* the on-board unit under any readings of its three sensors
SpecObu == InitSpecObu /\ [][Cycle]_vars

----------------------------------------------------------------------------
(* Properties of the on-board unit's cycle                                 *)

\* a reading the cycle may correct with: there, and made from a well-formed
\* line
Usable(reading) == IF reading.present /\ reading.wellformed THEN reading ELSE NoReading

\* C23: every cycle runs predict exactly once and first, skips the
\* correction of a sensor whose reading is missing or malformed, applies
\* the corrections of the other sensors in the order position,
\* acceleration, range, and ends with a payload carrying the state estimate
C23_Step ==
    cycle' = cycle + 1 =>
        LET expected == fuse(ekf_x, ekf_P, initialised, Usable(payload'.gps),
                             Usable(payload'.imu), Usable(payload'.radar))
        IN  /\ payload'.sent
            /\ payload'.calls = expected.calls
            /\ payload'.state = expected.x
            /\ ekf_x' = expected.x
            /\ ekf_P' = expected.P
C23_CycleFusesUsableReadings == [][C23_Step]_vars
\* a cycle whose radar line was no number
C23_Witness ==
    /\ payload.sent
    /\ payload.radar.present
    /\ ~payload.radar.wellformed
    /\ payload.calls[Len(payload.calls)] = "update_radar"

\* the two assessments of the cycle that sent the payload
TrajectoryRisk ==
    assess(payload.trajectory, <<>>, <<1, 10>>, ttc_high, ttc_medium, min_dist_alert)
RadarRisk ==
    assess_radar(payload.radar.distance_m, payload.radar.relative_velocity_mps,
                 ttc_high, ttc_medium, min_dist_alert)

\* C30: when a cycle has a trajectory assessment and a radar assessment, the
\* level in the payload is the more severe of the two under
\* LOW < MEDIUM < HIGH
C30_PayloadCarriesWorseLevel ==
    (payload.sent /\ payload.trajectory # <<>> /\ payload.radar.present) =>
        LET t == RiskRank(TrajectoryRisk.risk_level)
            r == RiskRank(RadarRisk.risk_level)
        IN  RiskRank(payload.level) = IF r > t THEN r ELSE t
\* a cycle with a trajectory and a radar assessment of HIGH
C30_Witness ==
    /\ payload.sent
    /\ payload.trajectory # <<>>
    /\ payload.radar.present
    /\ RadarRisk.risk_level = "HIGH"

----------------------------------------------------------------------------
(* Properties of the collision risk assessor                               *)

\* the pairwise evaluation of ego against others[k] by the assessor of the
\* current state
PairwiseOf(ego, others, dt, k) ==
    evaluate_pair(ego, others[k], dt, ttc_high, ttc_medium, min_dist_alert)

\* the positions of others whose pairwise evaluation has a finite minimum
\* distance
InReach(ego, others, dt) ==
    {k \in 1..Len(others) : PairwiseOf(ego, others, dt, k).min_distance_m # Inf}

\* the first position of others that attains the smallest minimum distance
Closest(ego, others, dt) ==
    CHOOSE k \in InReach(ego, others, dt) :
        \A j \in InReach(ego, others, dt) :
            LET dk == PairwiseOf(ego, others, dt, k).min_distance_m
                dj == PairwiseOf(ego, others, dt, j).min_distance_m
            IN  RLe(dk, dj) /\ (j < k => RLt(dk, dj))

\* C15: assess returns the pairwise evaluation of the other trajectory with
\* the smallest min_distance_m, the first such in input order on ties, named
\* in details by its index; when no other trajectory shares an index with
\* the ego trajectory (others empty included) it returns LOW with no ttc, no
\* intersection point and infinite min_distance_m.
C15_AssessReturnsClosest ==
    ra_out.op = "assess" =>
        LET ego == ra_out.args[1]
            others == ra_out.args[2]
            dt == ra_out.args[3]
            ret == ra_out.ret
        IN  IF InReach(ego, others, dt) = {}
            THEN /\ ret.risk_level = "LOW"
                 /\ ret.ttc_seconds = None
                 /\ ret.intersection_point = NoPoint
                 /\ ret.min_distance_m = Inf
            ELSE LET k == Closest(ego, others, dt)
                 IN  ret = [PairwiseOf(ego, others, dt, k)
                               EXCEPT !.details = <<"closest", k - 1>>]

\* two trajectories tie at 6 m with different evaluations and the first wins
C15_Witness ==
    /\ ra_out.op = "assess"
    /\ ra_out.args[2] = <<<<Pt(0, 20), Pt(18, 6)>>, <<Pt(0, 6), Pt(18, 6)>>>>
    /\ ra_out.args[3] = Rat(3)
    /\ ra_out.ret.min_distance_m = Rat(6)
    /\ ra_out.ret.ttc_seconds = Rat(3)
    /\ ra_out.ret.details = <<"closest", 0>>

\* C16: the risk level assess returns is at least as severe as the risk
\* level of the pairwise evaluation of the ego trajectory against every
\* trajectory passed.
C16_AssessIsWorstCase ==
    ra_out.op = "assess" =>
        \A k \in 1..Len(ra_out.args[2]) :
            RiskRank(ra_out.ret.risk_level) >=
                RiskRank(PairwiseOf(ra_out.args[1], ra_out.args[2], ra_out.args[3], k).risk_level)

\* a crossing trajectory evaluated HIGH is passed with a nearer parallel one
\* and the assessment is LOW
C16_Witness ==
    /\ ra_out.op = "assess"
    /\ ra_out.args[1] = <<Pt(0, 0), Pt(18, 0), Pt(36, 0)>>
    /\ ra_out.args[2] = <<<<Pt(0, 11), Pt(18, 11), Pt(36, 11)>>, <<Pt(9, 12), Pt(9, -12)>>>>
    /\ PairwiseOf(ra_out.args[1], ra_out.args[2], ra_out.args[3], 2).risk_level = "HIGH"
    /\ ra_out.ret.risk_level = "LOW"

\* C17: assess_radar returns ttc = |distance / relative_velocity| exactly when
\* relative_velocity < -0.1 and no ttc otherwise; its risk level is HIGH if a
\* ttc exists and ttc <= ttc_high, else MEDIUM if a ttc exists and
\* ttc <= ttc_medium, else MEDIUM if distance < min_dist_alert, else LOW.
C17_RadarTtcAndLevel ==
    ra_out.op = "assess_radar" =>
        LET d == ra_out.args[1]
            rv == ra_out.args[2]
            ret == ra_out.ret
            approaching == rv[1] * 10 < -rv[2]
            ttc == ret.ttc_seconds
        IN  /\ approaching => ttc # None /\ ttc[2] * d[1] * rv[2] = -ttc[1] * d[2] * rv[1]
            /\ ~approaching => ttc = None
            /\ ret.risk_level = "HIGH" <=> (approaching /\ RLe(ttc, ttc_high))
            /\ ret.risk_level = "MEDIUM" <=>
                   \/ approaching /\ ~RLe(ttc, ttc_high) /\ RLe(ttc, ttc_medium)
                   \/ (~approaching \/ ~RLe(ttc, ttc_medium)) /\ RLt(d, min_dist_alert)
            /\ ret.risk_level = "LOW" <=>
                   (~approaching \/ ~RLe(ttc, ttc_medium)) /\ ~RLt(d, min_dist_alert)

\* a ttc equal to ttc_high is HIGH
C17_Witness ==
    /\ ra_out.op = "assess_radar"
    /\ ra_out.args = <<Rat(20), Rat(-10)>>
    /\ ttc_high = Rat(2)
    /\ ra_out.ret.ttc_seconds = Rat(2)
    /\ ra_out.ret.risk_level = "HIGH"

\* the squared distance of the two centres at time s (a rational) minus
\* (2 * radius) ^ 2: negative exactly when the discs overlap
GapAt(q, s) == RAdd(RAdd(RMul(Rat(q.a), RMul(s, s)), RMul(Rat(q.b), s)), Rat(q.c))

\* C18: whenever compute_ttc returns t, t > 0, the discs do not overlap at any
\* time in [0, t) and their centres are exactly 2 * radius apart at t (the gap
\* is convex in time, so with a zero at t it is non-negative on [0, t) exactly
\* when it is at 0 and at t / 2); it returns none when the relative velocity
\* is zero, when the discs never come within 2 * radius, or when they are
\* moving apart; 100 m apart closing at 10 m/s with radius 3 gives 9.4.
C18_TtcIsTimeToCollision ==
    ra_out.op = "compute_ttc" =>
        LET q == TtcCoefficients(ra_out.args[1], ra_out.args[2], ra_out.args[3],
                                 ra_out.args[4], ra_out.args[5])
            t == ra_out.ret
        IN  /\ t # None =>
                  /\ RLt(Rat(0), t)
                  /\ GapAt(q, t) = Rat(0)
                  /\ RLe(Rat(0), GapAt(q, Rat(0)))
                  /\ RLe(Rat(0), GapAt(q, RDiv(t, Rat(2))))
            /\ q.a = 0 => t = None
            /\ q.b * q.b - 4 * q.a * q.c < 0 => t = None
            /\ q.b > 0 => t = None
            /\ ra_out.args = <<<<0, 0>>, <<0, 0>>, <<100, 0>>, <<-10, 0>>, 3>> => t = <<47, 5>>

\* discs that overlap at time 0 and close in get the time their overlap ends
C18_Witness ==
    /\ ra_out.op = "compute_ttc"
    /\ ra_out.args = <<<<0, 0>>, <<1, 0>>, <<4, 0>>, <<0, 0>>, 3>>
    /\ ra_out.ret = Rat(10)

\* the point pt (a pair of rationals) lies on the segment from p to q: it is
\* on the line through them and between the two ends
OnSegment(pt, p, q) ==
    LET ex == Rat(q.x - p.x)
        ey == Rat(q.y - p.y)
        rx == RSub(pt[1], Rat(p.x))
        ry == RSub(pt[2], Rat(p.y))
        along == RAdd(RMul(ex, rx), RMul(ey, ry))
    IN  /\ RMul(ex, ry) = RMul(ey, rx)
        /\ RLe(Rat(0), along)
        /\ RLe(along, RAdd(RMul(ex, ex), RMul(ey, ey)))

\* C19: _segment_intersection returns a point exactly when the segments are
\* not parallel (denom is not 0) and the parameters t and u both lie in
\* [0, 1]; a returned point lies on both segments; parallel segments give no
\* intersection; and the outcome is the same with the two segments swapped.
C19_SegmentIntersection ==
    ra_out.op = "_segment_intersection" =>
        LET p1 == ra_out.args[1]
            p2 == ra_out.args[2]
            p3 == ra_out.args[3]
            p4 == ra_out.args[4]
            ret == ra_out.ret
            denom == (p1.x - p2.x) * (p3.y - p4.y) - (p1.y - p2.y) * (p3.x - p4.x)
            tn == (p1.x - p3.x) * (p3.y - p4.y) - (p1.y - p3.y) * (p3.x - p4.x)
            un == -((p1.x - p2.x) * (p1.y - p3.y) - (p1.y - p2.y) * (p1.x - p3.x))
            Unit(n) == IF denom > 0 THEN 0 <= n /\ n <= denom
                       ELSE denom <= n /\ n <= 0
        IN  /\ ret # NoPoint <=> (denom # 0 /\ Unit(tn) /\ Unit(un))
            /\ ret # NoPoint => OnSegment(ret, p1, p2) /\ OnSegment(ret, p3, p4)
            /\ denom = 0 => ret = NoPoint
            /\ ret = segment_intersection(p3, p4, p1, p2)

\* the two diagonals of a square cross at its centre
C19_Witness ==
    /\ ra_out.op = "_segment_intersection"
    /\ ra_out.args = <<Pt(0, 0), Pt(3, 3), Pt(0, 3), Pt(3, 0)>>
    /\ ra_out.ret = <<<<3, 2>>, <<3, 2>>>>

\* the smallest element of a non-empty set of naturals
Least(S) == CHOOSE i \in S : \A j \in S : i <= j

\* C29: _evaluate_pair looks at the indices below min(len(a), len(b)) only;
\* min_distance_m is the least pointwise distance over them; ttc_seconds is
\* dt times the smaller of the first index with a distance below
\* min_distance_alert and the first index whose segments intersect, none if
\* there is neither; so min_distance_m < min_distance_alert brings a ttc and
\* a level of MEDIUM at least
C29_PairEvaluation ==
    ra_out.op = "_evaluate_pair" =>
        LET a == ra_out.args[1]
            b == ra_out.args[2]
            dt == ra_out.args[3]
            ret == ra_out.ret
            n == IF Len(a) <= Len(b) THEN Len(a) ELSE Len(b)
            Dist(i) == _distance(a[i], b[i])
            Near == {i \in 1..n : RLt(Dist(i), min_dist_alert)}
            Cross == {i \in 1..(n - 1) :
                         segment_intersection(a[i], a[i + 1], b[i], b[i + 1]) # NoPoint}
        IN  /\ ret = evaluate_pair(SubSeq(a, 1, n), SubSeq(b, 1, n), dt,
                                   ttc_high, ttc_medium, min_dist_alert)
            /\ IF n = 0 THEN ret.min_distance_m = Inf
               ELSE /\ \E i \in 1..n : ret.min_distance_m = Dist(i)
                    /\ \A i \in 1..n : RLe(ret.min_distance_m, Dist(i))
            /\ ret.ttc_seconds =
                   IF Near \cup Cross = {} THEN None
                   ELSE RMul(Rat(Least(Near \cup Cross) - 1), dt)
            /\ (ret.min_distance_m # Inf /\ RLt(ret.min_distance_m, min_dist_alert)) =>
                   /\ ret.ttc_seconds # None
                   /\ RiskRank(ret.risk_level) >= 1
\* trajectories of different lengths that come near at the second waypoint
\* after crossing on the first segment
C29_Witness ==
    /\ ra_out.op = "_evaluate_pair"
    /\ Len(ra_out.args[1]) = 3
    /\ ra_out.args[2] = <<Pt(9, 12), Pt(18, -6)>>
    /\ ra_out.ret.ttc_seconds = Rat(0)
    /\ ra_out.ret.min_distance_m = Rat(6)
    /\ RLt(ra_out.ret.min_distance_m, min_dist_alert)

----------------------------------------------------------------------------
(* Properties of the Kalman filter                                         *)

\* C20: the first update_gps call on a filter leaves the position (x, y) of
\* the state equal to the projected measurement, whatever calls came before
\* it; the initialised flag is set by it and never cleared; every later
\* update_gps leaves the state the Kalman correction gives, position
\* included.
C20_Step ==
    /\ initialised => initialised'
    /\ (ekf_out'.op = "update_gps" /\ n_ekf' = n_ekf + 1) =>
          LET z == latlon_to_metres(ekf_out'.args[1], ekf_out'.args[2])
          IN  /\ initialised'
              /\ ~initialised => ekf_x'[1] = z[1] /\ ekf_x'[2] = z[2]
              /\ initialised => ekf_x' = ekf_update(ekf_x, ekf_P, z, Observe(2, 1), R_gps).x
C20_FirstFixSeedsPosition == [][C20_Step]_vars

\* a first fix 5 m out, after an acceleration reading: the position is the
\* fix itself, where the Kalman correction alone would leave 10/11 of it
C20_Witness ==
    /\ ekf_out.op = "update_gps"
    /\ n_ekf = 2
    /\ initialised
    /\ ekf_x[5] # Rat(0)
    /\ ekf_x[1] = Rat(3)
    /\ ekf_x[2] = Rat(4)

\* the innovation covariance of the call recorded in out, made in a state
\* with the estimate x and covariance P
CovOfCall(out, x, P) ==
    CASE out.op = "update_gps" -> innovation_covariance(P, Observe(2, 1), R_gps)
      [] out.op = "update_imu" -> innovation_covariance(P, Observe(2, 5), R_imu)
      [] out.op = "update_radar" -> innovation_covariance(P, radar_H(x), R_radar)

\* C21: a correction whose innovation covariance S is singular is skipped:
\* the call returns the estimate, and x and P are as before the call; no
\* call on one filter changes the x or P of the other vehicle's filter.
C21_Step ==
    n_ekf' = n_ekf + 1 =>
        /\ peer' = peer
        /\ (ekf_out'.op # "predict" /\ Det(CovOfCall(ekf_out', ekf_x, ekf_P)) = Rat(0)) =>
              /\ ekf_x' = ekf_x
              /\ ekf_P' = ekf_P
              /\ ekf_out'.ret = ekf_x
C21_SingularUpdateSkipped == [][C21_Step]_vars

\* with an exact position sensor the first fix leaves no position variance;
\* a second fix then meets S = 0 and leaves the first fix in place, while the
\* other vehicle's filter holds what its own calls left
C21_Witness ==
    /\ ekf_out.op = "update_gps"
    /\ ekf_out.args = <<<<2, 27635>>, <<82, 1335840>>>>
    /\ R_gps = MatScale(Eye(2), Rat(0))
    /\ n_ekf = 2
    /\ ekf_x[1] = Rat(3)
    /\ ekf_x[2] = Rat(4)
    /\ Det(innovation_covariance(ekf_P, Observe(2, 1), R_gps)) = Rat(0)

\* A = A^T
Symmetric(A) == \A i, j \in 1..Rows(A) : A[i][j] = A[j][i]

\* v^T A v >= 0 for every v, for a symmetric A: by elimination on the first
\* row, A is positive semi-definite iff its corner a is positive and the
\* Schur complement of a is positive semi-definite, or a is 0, the first row
\* is 0 and the rest of A is positive semi-definite
RECURSIVE PositiveSemiDefinite(_)
PositiveSemiDefinite(A) ==
    LET n == Rows(A)
        a == A[1][1]
        Rest == Vec([i \in 1..(n - 1) |-> Vec([j \in 1..(n - 1) |->
                    IF a = Rat(0) THEN A[i + 1][j + 1]
                    ELSE QSub(A[i + 1][j + 1],
                              QMul(QDiv(A[i + 1][1], a), A[1][j + 1]))])])
    IN  IF n = 0 THEN TRUE
        ELSE IF RLt(a, Rat(0)) THEN FALSE
        ELSE IF a = Rat(0) /\ \E j \in 1..n : A[1][j] # Rat(0) THEN FALSE
        ELSE PositiveSemiDefinite(Rest)

\* C26: from P = 10 * I on, after every predict and every correction the
\* covariance P is symmetric and positive semi-definite
C26_CovarianceSymmetricPSD ==
    /\ Symmetric(ekf_P)
    /\ PositiveSemiDefinite(ekf_P)
\* a range correction after a position fix: P couples x and y
C26_Witness ==
    /\ ekf_out.op = "update_radar"
    /\ n_ekf = 2
    /\ ekf_P[1][2] # Rat(0)
    /\ ekf_P # MatScale(Eye(StateDim), Rat(10))

----------------------------------------------------------------------------
(* Properties of construction                                              *)

\* C22: a component that exists was built from a valid configuration: the
\* policy has max_channel_capacity > 0 and epsilon in [0, 1], the map has
\* decay_rate >= 0, the aggregator has distance_threshold >= 0 and the
\* assessor has ttc_threshold_high <= ttc_threshold_medium.
C22_ConfigurationValid ==
    /\ max_capacity > 0
    /\ RLe(Rat(0), epsilon) /\ RLe(epsilon, Rat(1))
    /\ decay_rate >= 0
    /\ RLe(Rat(0), distance_threshold)
    /\ RLe(ttc_high, ttc_medium)

\* an assessor built with ttc_threshold_high 5 above ttc_threshold_medium 2
\* answers assess_radar: a ttc of 4 s is HIGH
C22_Witness ==
    /\ RLt(ttc_medium, ttc_high)
    /\ max_capacity = 0
    /\ decay_rate < 0
    /\ ra_out.op = "assess_radar"
    /\ ra_out.ret.ttc_seconds = Rat(4)
    /\ ra_out.ret.risk_level = "HIGH"

----------------------------------------------------------------------------
(* Properties of the dissemination policy                                  *)

\* the load bucket of a counter value: LOW below 0.4 of the capacity, MED
\* below 0.75, else HIGH
BucketOf(warnings, cap) ==
    LET c == IF cap >= 1 THEN cap ELSE 1
    IN  IF 10 * warnings < 4 * c THEN "LOW"
        ELSE IF 100 * warnings < 75 * c THEN "MED" ELSE "HIGH"

\* C1: the live-warning counter never exceeds max_channel_capacity
C1_CounterWithinCapacity == current_warnings <= max_capacity

\* C2: the counter moves only by +1 on a decide that returns WARN and to 0 on
\* reset_epoch; the bucket a decide sees is the bucket of the counter, it is
\* LOW for the first decide of an epoch and never below the bucket seen by the
\* previous decide of the same epoch
C2_Step ==
    LET op == rl_out'.op
        d == rl_out'.decisions[1]
    IN  /\ op = "decide" /\ d.action = "WARN" =>
               current_warnings' = current_warnings + 1
        /\ op = "decide" /\ d.action = "SKIP" =>
               current_warnings' = current_warnings
        /\ op = "reset_epoch" => current_warnings' = 0
        /\ op \notin {"decide", "reset_epoch"} =>
               current_warnings' = current_warnings
        /\ op = "decide" =>
               /\ d.bin = BucketOf(current_warnings, max_capacity)
               /\ epoch_bin = "NONE" => d.bin = "LOW"
               /\ epoch_bin # "NONE" => BinRank(d.bin) >= BinRank(epoch_bin)
C2_CounterAndBucket == [][C2_Step]_vars

\* a decide that saw bucket MED and returned WARN, filling a capacity of 2
C2_Witness ==
    /\ rl_out.op = "decide"
    /\ rl_out.decisions[1].bin = "MED"
    /\ rl_out.decisions[1].action = "WARN"
    /\ max_capacity = 2
    /\ current_warnings = 2

\* the action the claim expects of an exploiting decide
GreedyAction(q, risk_level, bin) ==
    IF RLt(q[<<risk_level, bin>>]["WARN"], q[<<risk_level, bin>>]["SKIP"])
    THEN "SKIP" ELSE "WARN"

\* C3: with epsilon = 0 every decide call has one possible outcome, the action
\* of strictly higher Q-value for (risk_level, current bucket), WARN on a tie
C3_GreedyDeterministic ==
    epsilon = Rat(0) =>
        /\ \A risk_level \in RiskLevels :
              {decide(q_table, epsilon, max_capacity, current_warnings,
                      total_decisions, risk_level, draw[1], draw[2]).action :
                  draw \in DrawSet}
              = {GreedyAction(q_table, risk_level,
                              BucketOf(current_warnings, max_capacity))}
        /\ rl_out.op = "decide" =>
              LET d == rl_out.decisions[1]
              IN  d.action = GreedyAction(q_table, d.record.risk_level,
                                          BucketOf(d.seen, max_capacity))

\* a greedy decide that returned SKIP, its Q-value being strictly higher
C3_Witness ==
    /\ epsilon = Rat(0)
    /\ rl_out.op = "decide"
    /\ rl_out.decisions[1].action = "SKIP"
    /\ rl_out.decisions[1].bin = "HIGH"

\* C9: in a batch over aggregate's list, a record of strictly higher
\* risk_score is decided earlier and sees a channel load no higher
C9_RankedOrder ==
    rl_out.op = "batch_decide" =>
        LET ds == rl_out.decisions
            c == IF max_capacity >= 1 THEN max_capacity ELSE 1
        IN  \A i, j \in 1..Len(ds) :
                RLt(ds[j].record.risk_score, ds[i].record.risk_score) =>
                    /\ i < j
                    /\ RLe(<<ds[i].seen, c>>, <<ds[j].seen, c>>)

\* a batch of three records of falling score, the last seeing a higher load
C9_Witness ==
    /\ rl_out.op = "batch_decide"
    /\ Len(rl_out.decisions) = 3
    /\ RLt(rl_out.decisions[3].record.risk_score,
           rl_out.decisions[2].record.risk_score)
    /\ RLt(rl_out.decisions[2].record.risk_score,
           rl_out.decisions[1].record.risk_score)
    /\ rl_out.decisions[1].seen < rl_out.decisions[3].seen

----------------------------------------------------------------------------
(* Properties of the risk aggregator                                       *)

\* the Euclidean distance of two vehicles is at most t metres (t >= 0)
WithinDistance(va, vb, t) == SqDist(va, vb) * t[2] * t[2] <= 100 * t[1] * t[1]

\* the records of a result list for the unordered pair {id1, id2}
RecordsOf(ret, id1, id2) ==
    {k \in 1..Len(ret) : {ret[k].vehicle_a, ret[k].vehicle_b} = {id1, id2}}

\* C8: aggregate returns exactly one record for every unordered pair within
\* distance_threshold, none for a pair beyond it, and nothing else
C8_PairsInRange ==
    agg_out.op = "aggregate" =>
        LET f == agg_out.vehicles
            ret == agg_out.ret
            pairs == {p \in (1..Len(f)) \X (1..Len(f)) : p[1] < p[2]}
            near == {p \in pairs : WithinDistance(f[p[1]], f[p[2]], distance_threshold)}
        IN  /\ \A p \in pairs :
                  Cardinality(RecordsOf(ret, f[p[1]].id, f[p[2]].id))
                  = IF p \in near THEN 1 ELSE 0
            /\ \A k \in 1..Len(ret) :
                  \E p \in pairs : /\ ret[k].vehicle_a = f[p[1]].id
                                   /\ ret[k].vehicle_b = f[p[2]].id
            /\ Len(ret) = Cardinality(near)

\* three vehicles with exactly one pair in range, and one record returned
C8_Witness ==
    /\ agg_out.op = "aggregate"
    /\ Len(agg_out.vehicles) = 3
    /\ Len(agg_out.ret) = 1
    /\ Cardinality({p \in (1..3) \X (1..3) :
            /\ p[1] < p[2]
            /\ WithinDistance(agg_out.vehicles[p[1]], agg_out.vehicles[p[2]],
                              distance_threshold)}) = 1

\* the vehicle of a fleet with a given id
VehicleOf(f, id) == f[CHOOSE i \in 1..Len(f) : f[i].id = id]

\* C10: for every record, ttc = distance / relative_speed when relative_speed
\* > 0.1 and infinite (no ttc reported) otherwise; risk_score is 0 when
\* ttc >= 100 and min(1, 50 / ((ttc + 0.1) * (distance + 1))) otherwise, so it
\* lies in [0, 1] and is fixed by (ttc, distance); the reported score is that
\* value to 4 decimals; A at (0,0) moving (5,0) and B at (50,0) moving (-5,0)
\* give distance 50, relative speed 10, ttc 5 and a positive score
C10_TtcAndScore ==
    agg_out.op = "aggregate" =>
        LET f == agg_out.vehicles
            ret == agg_out.ret
        IN  /\ \A k \in 1..Len(ret) :
                  LET r == ret[k]
                      va == VehicleOf(f, r.vehicle_a)
                      vb == VehicleOf(f, r.vehicle_b)
                      distance == <<Sqrt(SqDist(va, vb)), 10>>
                      relative_speed == <<Sqrt(SqRelSpeed(va, vb)), 10>>
                      ttc == RDiv(distance, relative_speed)
                      closing == 10 * relative_speed[1] > relative_speed[2]
                      score == IF closing /\ RLt(ttc, Rat(100))
                               THEN RMin(Rat(1),
                                         RDiv(Rat(50),
                                              RMul(RAdd(ttc, <<1, 10>>),
                                                   RAdd(distance, Rat(1)))))
                               ELSE Rat(0)
                  IN  /\ closing => r.ttc = ttc
                      /\ ~closing => r.ttc = Inf /\ r.ttc_seconds = None
                      /\ r.score = score
                      /\ RLe(Rat(0), r.score) /\ RLe(r.score, Rat(1))
                      /\ r.risk_score = Round(score, 10000)
                      /\ RLe(Rat(0), r.risk_score) /\ RLe(r.risk_score, Rat(1))
            /\ \A k, m \in 1..Len(ret) :
                  ret[k].ttc = ret[m].ttc /\ ret[k].distance_m = ret[m].distance_m
                      => ret[k].score = ret[m].score
            /\ \A k \in 1..Len(ret) :
                  /\ VehicleOf(f, ret[k].vehicle_a) = Veh("A", 0, 0, 50, 0)
                  /\ VehicleOf(f, ret[k].vehicle_b) = Veh("B", 500, 0, -50, 0)
                  => /\ ret[k].distance_m = Rat(50)
                     /\ ret[k].relative_speed_mps = Rat(10)
                     /\ ret[k].ttc_seconds = Rat(5)
                     /\ RLt(Rat(0), ret[k].risk_score)

\* the head-on pair A, B at 50 m among the three records of a fleet
C10_Witness ==
    /\ agg_out.op = "aggregate"
    /\ Len(agg_out.ret) = 3
    /\ \E k \in 1..3 :
          /\ VehicleOf(agg_out.vehicles, agg_out.ret[k].vehicle_a) = Veh("A", 0, 0, 50, 0)
          /\ VehicleOf(agg_out.vehicles, agg_out.ret[k].vehicle_b) = Veh("B", 500, 0, -50, 0)
          /\ agg_out.ret[k].ttc_seconds = Rat(5)

\* C25: the records of an aggregate call are those a new aggregator returns
\* for the same vehicles; afterwards the cache holds, under a key that is
\* the same for (a, b) and (b, a), the unrounded score of every pair that
\* was in range in this call, and what it held before under every other key
C25_Step ==
    n_aggregates' = n_aggregates + 1 =>
        LET vehicles == agg_out'.vehicles
            n == Len(vehicles)
            Rec(i, j) == compute_pair_risk(distance_threshold, vehicles[i], vehicles[j])
            Key(i, j) == PairKey(vehicles[i].id, vehicles[j].id)
            InRange == {<<i, j>> \in (1..n) \X (1..n) : i < j /\ Rec(i, j) # <<>>}
        IN  /\ agg_out'.ret = aggregate(distance_threshold, <<>>, vehicles).ret
            /\ \A i, j \in 1..n : i # j => Key(i, j) = Key(j, i)
            /\ DOMAIN pair_cache' = DOMAIN pair_cache \cup {Key(q[1], q[2]) : q \in InRange}
            /\ \A q \in InRange : pair_cache'[Key(q[1], q[2])] = Rec(q[1], q[2])[1].score
            /\ \A k \in DOMAIN pair_cache \ {Key(q[1], q[2]) : q \in InRange} :
                  pair_cache'[k] = pair_cache[k]
C25_CacheIsWriteOnly == [][C25_Step]_vars
\* B and A passed in this order and out of range, after a call that had them
\* in range: the cache still holds the earlier score under (A, B)
C25_Witness ==
    /\ n_aggregates = 2
    /\ Len(agg_out.vehicles) = 2
    /\ agg_out.vehicles[1].id = "B"
    /\ agg_out.vehicles[2].id = "A"
    /\ agg_out.ret = <<>>
    /\ DOMAIN pair_cache = {<<"A", "B">>}
    /\ RLt(Rat(0), pair_cache[<<"A", "B">>])

----------------------------------------------------------------------------
(* Properties of the collision-probability map                             *)

InUnit(p) == RLe(Rat(0), p) /\ RLe(p, Rat(1))

\* C4: every stored cell score is in [0,1], and so is every value returned by
\* get_risk_at and every risk_score listed by get_hotspots
C4_ScoresInUnitInterval ==
    /\ \A i \in 1..Len(grid) : InUnit(grid[i].score)
    /\ cp_out.op = "get_risk_at" => InUnit(cp_out.ret)
    /\ cp_out.op = "get_hotspots" =>
           \A k \in 1..Len(cp_out.ret) : InUnit(cp_out.ret[k].risk_score)

\* four updates of one cell, the last of them clamped, read back as 1
C4_Witness ==
    /\ cp_out.op = "get_risk_at"
    /\ n_map_updates = 4
    /\ cp_out.ret = Rat(1)
    /\ Len(grid) = 1
    /\ grid[1].score = Rat(1)

\* C5: update sets the cell's stored score to min(1, s + 0.3 r), s being the
\* score as stored (0 for a new cell) whatever time has passed since; it adds
\* the vehicle to the cell's contributors and stamps the cell with the time
\* of the call.  The stored score is never below the score of decay-then-add
\* over the updates since the last decay_all, and an update with r = 1 of a
\* fresh cell is read back at once as 0.3
C5_Step ==
    n_map_updates' # n_map_updates =>
        LET vehicle_id == cp_out'.args[1]
            loc == cp_out'.args[2]
            r == cp_out'.args[3]
            cell == latlon_to_cell(loc[1], loc[2])
            fresh == cell \notin Cells(grid)
            s == IF fresh THEN Rat(0) ELSE Entry(grid, cell).score
            old_vehicles == IF fresh THEN {} ELSE Entry(grid, cell).vehicles
        IN  /\ cp_out'.op = "update"
            /\ cell \in Cells(grid')
            /\ Entry(grid', cell).score = RMin(Rat(1), RAdd(s, RMul(<<3, 10>>, r)))
            /\ Entry(grid', cell).vehicles = old_vehicles \cup {vehicle_id}
            /\ Entry(grid', cell).updated_at = clock'
            /\ \A c \in Cells(grid) \ {cell} :
                   c \in Cells(grid') /\ Entry(grid', c) = Entry(grid, c)
            /\ Cells(grid') = Cells(grid) \cup {cell}
            /\ \A c \in Cells(grid') \cap DOMAIN cp_dta' :
                   RLe(cp_dta'[c], Entry(grid', c).score)
            /\ fresh /\ r = Rat(1) =>
                   get_risk_at(grid', decay_rate', clock', loc[1], loc[2]).ret
                       = <<3, 10>>
C5_UpdateAddsToStored == [][C5_Step]_vars

\* an update that found a stale score and left more than decay-then-add would
C5_Witness ==
    /\ cp_out.op = "update"
    /\ n_map_updates >= 2
    /\ \E c \in Cells(grid) \cap DOMAIN cp_dta :
          /\ RLt(cp_dta[c], Entry(grid, c).score)
          /\ RLt(Entry(grid, c).score, Rat(1))
          /\ Entry(grid, c).vehicles = MapVehicles

\* the score decay_all computes for an entry
DecayedScore(e) == RMul(e.score, ExpDecay(decay_rate, clock - e.updated_at))

\* C6: decay_all replaces every stored score s by s * exp(-decay_rate *
\* elapsed), stamps every cell with the current time and removes the cells
\* whose new score is below 0.01; afterwards no stored score is below 0.01,
\* and a removed cell is in no get_hotspots list and not in active_cells
C6_Step ==
    (cp_out'.op = "decay_all" /\ clock' = clock) =>
        /\ \A i \in 1..Len(grid) :
               LET e == grid[i]
               IN  IF RLt(DecayedScore(e), <<1, 100>>)
                   THEN /\ e.cell \notin Cells(grid')
                        /\ \A threshold \in HotspotThresholds \cup {Rat(0)} :
                               LET h == get_hotspots(grid', decay_rate', clock',
                                                     threshold).ret
                               IN  \A k \in 1..Len(h) : h[k].cell # e.cell
                   ELSE /\ e.cell \in Cells(grid')
                        /\ Entry(grid', e.cell) =
                               [e EXCEPT !.score = DecayedScore(e),
                                         !.updated_at = clock]
        /\ Cells(grid') \subseteq Cells(grid)
        /\ \A j \in 1..Len(grid') :
               /\ ~RLt(grid'[j].score, <<1, 100>>)
               /\ grid'[j].updated_at = clock'
        /\ active_cells(grid') =
               Cardinality({i \in 1..Len(grid) :
                               ~RLt(DecayedScore(grid[i]), <<1, 100>>)})
C6_DecayAllDecaysAndEvicts == [][C6_Step]_vars

\* decay_all at time 2 that kept one cell, updated at time 1 to 0.3 and now
\* decayed to 0.3 / 8, after a second update that left nothing stored
C6_Witness ==
    /\ cp_out.op = "decay_all"
    /\ decay_rate = 3
    /\ clock = 2
    /\ n_map_updates = 2
    /\ Len(grid) = 1
    /\ grid[1].score = <<3, 80>>
    /\ grid[1].updated_at = 2

\* C7: get_risk_at and get_hotspots leave the map as it was: the same cells
\* with the same scores, stamps and contributors, the same active_cells; and
\* get_risk_at of a location whose cell is not stored returns 0 and stores
\* no cell
C7_Step ==
    (cp_out'.op \in {"get_risk_at", "get_hotspots"} /\ clock' = clock) =>
        /\ grid' = grid
        /\ Cells(grid') = Cells(grid)
        /\ active_cells(grid') = active_cells(grid)
        /\ cp_out'.op = "get_risk_at" =>
               LET loc == cp_out'.args[1]
                   cell == latlon_to_cell(loc[1], loc[2])
               IN  cell \notin Cells(grid) =>
                       /\ cp_out'.ret = Rat(0)
                       /\ cell \notin Cells(grid')
C7_QueriesDoNotModify == [][C7_Step]_vars

\* get_risk_at answering 0 for a cell that was updated and then evicted
C7_Witness ==
    /\ cp_out.op = "get_risk_at"
    /\ n_map_updates >= 1
    /\ grid = <<>>
    /\ cp_out.ret = Rat(0)

\* the hotspot list of the latest get_hotspots call, made on the map as it is
HotspotsListed == cp_out'.op = "get_hotspots" /\ clock' = clock
HotCells(threshold) ==
    {grid[i].cell : i \in {j \in 1..Len(grid) : RLt(threshold, DecayedScore(grid[j]))}}
HotspotsExact(ret, threshold) ==
    /\ {ret[k].cell : k \in 1..Len(ret)} = HotCells(threshold)
    /\ Len(ret) = Cardinality(HotCells(threshold))
    /\ \A k \in 1..Len(ret) :
          /\ ret[k].vehicles = Entry(grid, ret[k].cell).vehicles
          /\ ret[k].risk_score = Round(DecayedScore(Entry(grid, ret[k].cell)), 10000)

\* C24 as stated: get_hotspots(threshold) returns exactly the cells whose
\* decayed score at query time is strictly above threshold, each with its
\* contributor ids, in non-increasing order of that decayed score
C24_Step ==
    HotspotsListed =>
        LET ret == cp_out'.ret
        IN  /\ HotspotsExact(ret, cp_out'.args[1])
            /\ \A k \in 1..(Len(ret) - 1) :
                  RLe(DecayedScore(Entry(grid, ret[k + 1].cell)),
                      DecayedScore(Entry(grid, ret[k].cell)))
C24_HotspotsByDecayedScore == [][C24_Step]_vars

\* C24 amended: the order is non-increasing in the reported risk_score, the
\* decayed score rounded to 4 decimals; cells whose rounded scores are equal
\* stay in the order in which they entered the grid
C24_AmendedStep ==
    HotspotsListed =>
        LET ret == cp_out'.ret
        IN  /\ HotspotsExact(ret, cp_out'.args[1])
            /\ \A k \in 1..(Len(ret) - 1) :
                  /\ RLe(ret[k + 1].risk_score, ret[k].risk_score)
                  /\ ret[k + 1].risk_score = ret[k].risk_score =>
                        CellIndex(grid, ret[k].cell) < CellIndex(grid, ret[k + 1].cell)
C24_HotspotsByReportedScore == [][C24_AmendedStep]_vars
\* two cells listed with the same risk_score, the first with the lower
\* decayed score
C24_Witness ==
    /\ cp_out.op = "get_hotspots"
    /\ Len(cp_out.ret) = 2
    /\ Cells(grid) = {cp_out.ret[1].cell, cp_out.ret[2].cell}
    /\ cp_out.ret[1].risk_score = cp_out.ret[2].risk_score
    /\ RLt(DecayedScore(Entry(grid, cp_out.ret[1].cell)),
           DecayedScore(Entry(grid, cp_out.ret[2].cell)))

\* C27: with a positive decay rate, the clock advancing and decay_all called
\* again and again, every cell that gets no further update is evicted in the
\* end: once the updates have stopped active_cells reaches 0 and stays 0
C27_EventuallyNoActiveCells == <>[](active_cells(grid) = 0)
\* a map that held a cell and has none after decay_all
C27_Witness ==
    /\ n_map_updates > 0
    /\ cp_out.op = "decay_all"
    /\ active_cells(grid) = 0
    /\ decay_rate > 0

\* C28: a call of decay_all changes no answer of get_risk_at, now or at any
\* later time t, for a cell it keeps; so for a cell that gets no update and
\* is not evicted the answer at t is the same (to the 4 decimals of the
\* query) however many times decay_all ran since the cell's last update
C28_Step ==
    (cp_out'.op = "decay_all" /\ clock' = clock) =>
        \A loc \in Locations :
            latlon_to_cell(loc[1], loc[2]) \in Cells(grid') =>
                \A t \in clock..MaxClock :
                    get_risk_at(grid', decay_rate, t, loc[1], loc[2]).ret
                        = get_risk_at(grid, decay_rate, t, loc[1], loc[2]).ret
C28_EagerAndLazyDecayAgree == [][C28_Step]_vars
\* decay_all has run a second after the update of a cell and kept it, with
\* the score decayed to an eighth; a later time is left to query
C28_Witness ==
    /\ cp_out.op = "decay_all"
    /\ decay_rate = 3
    /\ clock = 1
    /\ Len(grid) = 1
    /\ grid[1].updated_at = 1
    /\ grid[1].score = <<3, 80>>

----------------------------------------------------------------------------
(* Properties of the risk score and level                                  *)

\* C11: of two evaluations of the risk score, the one with the same ttc and
\* the larger distance, or the same distance and the larger ttc (across the
\* cut-off at ttc = 100 too), has the score that is no larger
C11_Step ==
    score_eval.score # None =>
        /\ (score_eval'.ttc = score_eval.ttc
                /\ RLe(score_eval.dist, score_eval'.dist))
               => RLe(score_eval'.score, score_eval.score)
        /\ (score_eval'.dist = score_eval.dist
                /\ RLe(score_eval.ttc, score_eval'.ttc))
               => RLe(score_eval'.score, score_eval.score)
C11_ScoreMonotone == [][C11_Step]_vars

\* an evaluation at the cut-off ttc = 100, where the score has dropped to 0
C11_Witness ==
    /\ score_eval.ttc = Rat(100)
    /\ score_eval.dist = Rat(0)
    /\ score_eval.score = Rat(0)

\* C12: in every record aggregate returns, risk_level is HIGH exactly when the
\* record's risk_score is above 0.7, MEDIUM exactly when it is above 0.3 and
\* at most 0.7, and LOW exactly when it is at most 0.3
C12_LevelAgreesWithRecord ==
    agg_out.op = "aggregate" =>
        \A k \in 1..Len(agg_out.ret) :
            LET r == agg_out.ret[k]
            IN  /\ r.risk_level = "HIGH" <=> RLt(<<7, 10>>, r.risk_score)
                /\ r.risk_level = "MEDIUM" <=>
                       (RLt(<<3, 10>>, r.risk_score) /\ RLe(r.risk_score, <<7, 10>>))
                /\ r.risk_level = "LOW" <=> RLe(r.risk_score, <<3, 10>>)

----------------------------------------------------------------------------
(* Properties of batches and of the Q-table                                *)

\* the number of WARN actions among the first n decisions
RECURSIVE WarnsIn(_, _)
WarnsIn(ds, n) ==
    IF n = 0 THEN 0
    ELSE WarnsIn(ds, n - 1) + (IF ds[n].action = "WARN" THEN 1 ELSE 0)

\* C13: batch_decide returns one element per input record, in input order,
\* each the record with an action WARN or SKIP; record i is decided with the
\* counter at its value before the batch plus the WARNs chosen for the
\* records before i; the counter is not reset, so it ends at its value before
\* the batch plus all the WARNs of the batch
C13_Step ==
    (rl_out'.op = "batch_decide" /\ total_decisions' # total_decisions) =>
        LET ds == rl_out'.decisions
            records == rl_out'.records
        IN  /\ Len(ds) = Len(records)
            /\ total_decisions' = total_decisions + Len(records)
            /\ \A i \in 1..Len(ds) :
                   /\ ds[i].record = records[i]
                   /\ ds[i].action \in {"WARN", "SKIP"}
                   /\ ds[i].seen = current_warnings + WarnsIn(ds, i - 1)
                   /\ ds[i].bin = BucketOf(ds[i].seen, max_capacity)
                   /\ epsilon = Rat(0) =>
                          ds[i].action = GreedyAction(q_table, records[i].risk_level,
                                                      ds[i].bin)
            /\ current_warnings' = current_warnings + WarnsIn(ds, Len(ds))
C13_BatchInOrder == [][C13_Step]_vars

\* a second batch that began with the counter a first batch left behind and
\* raised it further
C13_Witness ==
    /\ rl_out.op = "batch_decide"
    /\ Len(rl_out.decisions) = 2
    /\ total_decisions = 3
    /\ rl_out.decisions[1].seen = 1
    /\ rl_out.decisions[1].action = "WARN"
    /\ rl_out.decisions[2].seen = 2
    /\ current_warnings >= 2

\* the load bucket of a channel load passed to update
LoadBucket(load) ==
    IF RLt(load, <<2, 5>>) THEN "LOW" ELSE IF RLt(load, <<3, 4>>) THEN "MED" ELSE "HIGH"

\* C14: update sets Q(s, a) to Q(s, a) + lr (reward + gamma max Q(s', .) -
\* Q(s, a)) for the bucketed states s and s', changes no other entry and not
\* the counter; decide, batch_decide and reset_epoch change no Q-value
C14_Step ==
    IF n_updates' # n_updates
    THEN LET a == rl_out'.args
             st == <<a[1], LoadBucket(a[2])>>
             nx == <<a[5], LoadBucket(a[6])>>
             old == q_table[st][a[3]]
             best == IF RLt(q_table[nx]["WARN"], q_table[nx]["SKIP"])
                     THEN q_table[nx]["SKIP"] ELSE q_table[nx]["WARN"]
             target == RAdd(a[4], RMul(Discount, best))
         IN  /\ rl_out'.op = "update"
             /\ q_table'[st][a[3]] =
                    RAdd(old, RMul(LearningRate, RSub(target, old)))
             /\ \A s \in QStates, b \in {"WARN", "SKIP"} :
                    <<s, b>> # <<st, a[3]>> => q_table'[s][b] = q_table[s][b]
             /\ current_warnings' = current_warnings
             /\ total_decisions' = total_decisions
    ELSE q_table' = q_table
C14_UpdateTouchesOneEntry == [][C14_Step]_vars

\* a second update that bootstrapped from the value the first one left, after
\* which a batch was decided
C14_Witness ==
    /\ rl_out.op = "batch_decide"
    /\ n_updates = 2
    /\ \E s \in QStates, b \in {"WARN", "SKIP"} :
          q_table[s][b] = <<15, 32>>

====
